---- MODULE Spec2Model ----
(***************************************************************************)
(* Model of the basef publish/subscribe bus (BasePubSub) and of the path   *)
(* matcher it routes with (PathSegment, SegmentMatcher, BasePathMatcher).  *)
(*                                                                         *)
(* Strings are sequences of one-character strings, so that splitting,      *)
(* trimming, case folding and the segment grammar are computed and not     *)
(* assumed.  The event loop is modelled at the granularity of one          *)
(* setImmediate callback together with the microtasks it makes runnable:   *)
(* tick() is `new Promise(r => setImmediate(r))`, the immediates run in    *)
(* the order in which they were scheduled and the microtask queue is       *)
(* drained after each of them.                                             *)
(***************************************************************************)
EXTENDS Integers, Sequences, FiniteSets, TLC

(***************************************************************************)
(* Strings                                                                 *)
(***************************************************************************)

\* String.prototype.toLowerCase, on the letters the model uses
ToLowerChar(c) ==
  CASE c = "A" -> "a"
    [] c = "B" -> "b"
    [] c = "X" -> "x"
    [] OTHER -> c

ToLower(s) == [i \in 1..Len(s) |-> ToLowerChar(s[i])]

IsSpace(c) == c = " "

RECURSIVE TrimStart(_)
TrimStart(s) ==
  IF s = <<>> THEN <<>>
  ELSE IF IsSpace(Head(s)) THEN TrimStart(Tail(s)) ELSE s

RECURSIVE TrimEnd(_)
TrimEnd(s) ==
  IF s = <<>> THEN <<>>
  ELSE IF IsSpace(s[Len(s)]) THEN TrimEnd(SubSeq(s, 1, Len(s) - 1)) ELSE s

\* String.prototype.trim
Trim(s) == TrimEnd(TrimStart(s))

RECURSIVE SplitRec(_, _, _, _)
SplitRec(s, i, cur, acc) ==
  IF i > Len(s) THEN Append(acc, cur)
  ELSE IF s[i] = "/" THEN SplitRec(s, i + 1, <<>>, Append(acc, cur))
  ELSE SplitRec(s, i + 1, Append(cur, s[i]), acc)

\* String.prototype.split('/'): the empty string gives one empty fragment
Split(s) == SplitRec(s, 1, <<>>, <<>>)

RECURSIVE Join(_)
\* Array.prototype.join('/')
Join(segs) ==
  IF segs = <<>> THEN <<>>
  ELSE IF Len(segs) = 1 THEN segs[1]
  ELSE segs[1] \o <<"/">> \o Join(Tail(segs))

RECURSIVE FilterNonEmpty(_)
FilterNonEmpty(segs) ==
  IF segs = <<>> THEN <<>>
  ELSE IF Head(segs) = <<>> THEN FilterNonEmpty(Tail(segs))
  ELSE <<Head(segs)>> \o FilterNonEmpty(Tail(segs))

\* String.prototype.indexOf(c, from), 1-based; 0 when absent
RECURSIVE IndexOf(_, _, _)
IndexOf(s, c, from) ==
  IF from > Len(s) THEN 0
  ELSE IF s[from] = c THEN from
  ELSE IndexOf(s, c, from + 1)

EndsWith(s, suf) ==
  /\ Len(s) >= Len(suf)
  /\ SubSeq(s, Len(s) - Len(suf) + 1, Len(s)) = suf

StartsWith(s, pre) ==
  /\ Len(s) >= Len(pre)
  /\ SubSeq(s, 1, Len(pre)) = pre

(***************************************************************************)
(* PathSegment: parsing one raw pattern segment                            *)
(***************************************************************************)

\* PathSegment.data as the constructor initialises it, with the raw text
\* (getRaw) and an error flag standing for a thrown Error
InitialData(rawSegment) ==
  [err |-> FALSE, segmentType |-> "static", name |-> <<>>, range |-> <<>>,
   optional |-> FALSE, single |-> FALSE, multi |-> FALSE,
   multiString |-> FALSE, raw |-> rawSegment]

Throw(d) == [d EXCEPT !.err = TRUE]

ApplySuffix(d, suffix) ==
  LET isPW == d.segmentType \in {"param", "wildcard"}
      d1 == CASE suffix = <<"+">> -> [d EXCEPT !.multiString = TRUE]
              [] suffix = <<"?">> -> [d EXCEPT !.optional = TRUE]
              [] suffix = <<"*">> -> [d EXCEPT !.single = TRUE]
              [] suffix = <<"*", "*">> -> [d EXCEPT !.multi = TRUE]
              [] suffix = <<>> -> IF isPW THEN [d EXCEPT !.single = TRUE] ELSE d
              [] OTHER -> Throw(d)
  IN  IF d1.err THEN d1
      ELSE IF isPW /\ ~d1.optional /\ ~d1.multi /\ ~d1.multiString /\ ~d1.single
           THEN [d1 EXCEPT !.single = TRUE]
           ELSE d1

\* mutant of ParseParam: the suffix `*` is looked for before `**`
ParseParamStarFirst(d, core) ==
  LET bracketStart == IndexOf(core, "[", 1) IN
  IF bracketStart # 0
  THEN LET namePart == SubSeq(core, 1, bracketStart - 1)
           bracketEnd == IndexOf(core, "]", bracketStart)
       IN  IF namePart = <<>> THEN Throw(d)
           ELSE IF bracketEnd = 0 THEN Throw([d EXCEPT !.name = namePart])
           ELSE ApplySuffix([d EXCEPT !.name = namePart,
                                      !.range = SubSeq(core, bracketStart, bracketEnd)],
                            SubSeq(core, bracketEnd + 1, Len(core)))
  ELSE LET suffix == IF EndsWith(core, <<"*">>) THEN <<"*">>
                     ELSE IF EndsWith(core, <<"+">>) THEN <<"+">>
                     ELSE IF EndsWith(core, <<"?">>) THEN <<"?">>
                     ELSE IF EndsWith(core, <<"*", "*">>) THEN <<"*", "*">>
                     ELSE <<>>
           name == SubSeq(core, 1, Len(core) - Len(suffix))
           d1 == ApplySuffix(d, suffix)
       IN  IF d1.err THEN d1
           ELSE IF name = <<>> THEN Throw([d1 EXCEPT !.name = name])
           ELSE [d1 EXCEPT !.name = name]

ParseParam(d, core) ==
  LET bracketStart == IndexOf(core, "[", 1) IN
  IF bracketStart # 0
  THEN LET namePart == SubSeq(core, 1, bracketStart - 1)
           bracketEnd == IndexOf(core, "]", bracketStart)
       IN  IF namePart = <<>> THEN Throw(d)
           ELSE IF bracketEnd = 0 THEN Throw([d EXCEPT !.name = namePart])
           ELSE ApplySuffix([d EXCEPT !.name = namePart,
                                      !.range = SubSeq(core, bracketStart, bracketEnd)],
                            SubSeq(core, bracketEnd + 1, Len(core)))
  ELSE LET suffix == IF EndsWith(core, <<"*", "*">>) THEN <<"*", "*">>
                     ELSE IF EndsWith(core, <<"+">>) THEN <<"+">>
                     ELSE IF EndsWith(core, <<"?">>) THEN <<"?">>
                     ELSE IF EndsWith(core, <<"*">>) THEN <<"*">>
                     ELSE <<>>
           name == SubSeq(core, 1, Len(core) - Len(suffix))
           d1 == ApplySuffix(d, suffix)
       IN  IF d1.err THEN d1
           ELSE IF name = <<>> THEN Throw([d1 EXCEPT !.name = name])
           ELSE [d1 EXCEPT !.name = name]

IsStandaloneWildcard(s) ==
  s \in {<<"*">>, <<"*", "*">>, <<"?">>, <<"+">>}

ParseStandaloneWildcard(d, seg) ==
  CASE seg = <<"*">> -> [d EXCEPT !.single = TRUE]
    [] seg = <<"*", "*">> -> [d EXCEPT !.multi = TRUE]
    [] seg = <<"?">> -> [d EXCEPT !.optional = TRUE]
    [] seg = <<"+">> -> [d EXCEPT !.multiString = TRUE]
    [] OTHER -> Throw(d)

\* the index of the `]` closing the group \[[^\]]+\] that opens at i, or 0
BracketGroupEnd(s, i) ==
  IF i <= Len(s) /\ s[i] = "["
  THEN LET j == IndexOf(s, "]", i + 1) IN IF j >= i + 2 THEN j ELSE 0
  ELSE 0

\* the first group of /^(\*\*|\*|\+|\?)(\[[^\]]+\])(.*)$/, or <<>> when the
\* expression does not match
WildcardSymbolOf(seg) ==
  IF StartsWith(seg, <<"*", "*">>) /\ BracketGroupEnd(seg, 3) # 0 THEN <<"*", "*">>
  ELSE IF seg # <<>> /\ seg[1] \in {"*", "+", "?"} /\ BracketGroupEnd(seg, 2) # 0
       THEN <<seg[1]>>
       ELSE <<>>

Parse(rawSegment) ==
  LET seg == Trim(rawSegment)
      d0 == InitialData(rawSegment)
      sym == WildcardSymbolOf(seg)
  IN
  IF seg = <<>> THEN Throw(d0)
  ELSE IF seg[1] = ":"
       THEN ParseParam([d0 EXCEPT !.segmentType = "param"], Tail(seg))
  ELSE IF sym # <<>>
       THEN LET be == BracketGroupEnd(seg, Len(sym) + 1)
                d1 == [d0 EXCEPT !.segmentType = "wildcard",
                                 !.range = SubSeq(seg, Len(sym) + 1, be)]
                d2 == CASE sym = <<"*">> -> [d1 EXCEPT !.single = TRUE]
                        [] sym = <<"*", "*">> -> [d1 EXCEPT !.multi = TRUE]
                        [] sym = <<"+">> -> [d1 EXCEPT !.multiString = TRUE]
                        [] sym = <<"?">> -> [d1 EXCEPT !.optional = TRUE]
                        [] OTHER -> Throw(d1)
            IN  IF d2.err THEN d2
                ELSE ApplySuffix(d2, SubSeq(seg, be + 1, Len(seg)))
  ELSE IF IsStandaloneWildcard(seg)
       THEN ParseStandaloneWildcard([d0 EXCEPT !.segmentType = "wildcard"], seg)
  ELSE IF BracketGroupEnd(seg, 1) # 0
       THEN LET be == BracketGroupEnd(seg, 1) IN
            ApplySuffix([d0 EXCEPT !.segmentType = "wildcard",
                                   !.range = SubSeq(seg, 1, be)],
                        SubSeq(seg, be + 1, Len(seg)))
  ELSE d0

\* PathSegment.getType
GetType(d) ==
  IF d.segmentType = "static" THEN "static"
  ELSE IF d.optional THEN "optional"
  ELSE IF d.multiString THEN "multi-string"
  ELSE IF d.multi THEN "multi"
  ELSE IF d.single THEN "single"
  ELSE "static"

(***************************************************************************)
(* SegmentMatcher                                                          *)
(***************************************************************************)

\* character codes, for the ranges of a bracket expression
CharCode(c) ==
  CASE c = " " -> 32 [] c = "*" -> 42 [] c = "+" -> 43 [] c = "-" -> 45
    [] c = "/" -> 47 [] c = "0" -> 48 [] c = "1" -> 49 [] c = "9" -> 57
    [] c = ":" -> 58 [] c = "?" -> 63 [] c = "A" -> 65 [] c = "B" -> 66
    [] c = "X" -> 88 [] c = "Z" -> 90 [] c = "[" -> 91 [] c = "]" -> 93
    [] c = "^" -> 94 [] c = "_" -> 95 [] c = "a" -> 97 [] c = "b" -> 98
    [] c = "x" -> 120 [] c = "z" -> 122
    [] OTHER -> 0

\* does the character class with the given body (after a leading ^ has been
\* removed), read from position i, contain c; the i flag folds the case
RECURSIVE ClassHas(_, _, _)
ClassHas(body, i, c) ==
  IF i > Len(body) THEN FALSE
  ELSE IF i + 2 <= Len(body) /\ body[i + 1] = "-"
       THEN \/ /\ CharCode(ToLowerChar(body[i])) <= CharCode(ToLowerChar(c))
               /\ CharCode(ToLowerChar(c)) <= CharCode(ToLowerChar(body[i + 2]))
            \/ ClassHas(body, i + 3, c)
       ELSE \/ ToLowerChar(body[i]) = ToLowerChar(c)
            \/ ClassHas(body, i + 1, c)

\* SegmentMatcher.inBracketRange: new RegExp(`^[${body}]+$`, "i").test(value)
InBracketRange(value, rangeExpr) ==
  LET body == SubSeq(rangeExpr, 2, Len(rangeExpr) - 1)
      negated == body # <<>> /\ body[1] = "^"
      items == IF negated THEN Tail(body) ELSE body
  IN  /\ value # <<>>
      /\ \A i \in 1..Len(value) : ClassHas(items, 1, value[i]) # negated

\* a SegmentMatchResult; ok = FALSE stands for undefined.  A param value is
\* a string or a list of strings: paramValue holds the list, or the string
\* as the only element of a list, and valueIsList tells which
NoResult ==
  [ok |-> FALSE, leftover |-> <<>>, paramName |-> <<>>, hasValue |-> FALSE,
   valueIsList |-> FALSE, paramValue |-> <<>>, hasWildcard |-> FALSE,
   wildcard |-> <<>>]

Leftover(rest) == [NoResult EXCEPT !.ok = TRUE, !.leftover = rest]

RangeRejects(m, seg) == m.range # <<>> /\ ~InBracketRange(seg, m.range)

MatchStatic(m, segments) ==
  IF Len(segments) = 0 THEN NoResult
  ELSE IF Head(segments) = m.raw THEN Leftover(Tail(segments))
  ELSE NoResult

MatchSingleParam(m, segments) ==
  IF Len(segments) = 0 THEN NoResult
  ELSE IF RangeRejects(m, Head(segments)) THEN NoResult
  ELSE [Leftover(Tail(segments)) EXCEPT !.paramName = m.name, !.hasValue = TRUE,
                                        !.paramValue = <<Head(segments)>>]

MatchMultiParam(m, segments) ==
  IF Len(segments) = 0 THEN NoResult
  ELSE IF \E i \in 1..Len(segments) : RangeRejects(m, segments[i]) THEN NoResult
  ELSE [Leftover(<<>>) EXCEPT !.paramName = m.name, !.hasValue = TRUE,
                              !.valueIsList = TRUE, !.paramValue = segments]

\* mutant of MatchMultiStringParam: the segments are not joined
MatchMultiStringParamAsList(m, segments) ==
  IF Len(segments) = 0 THEN NoResult
  ELSE IF \E i \in 1..Len(segments) : RangeRejects(m, segments[i]) THEN NoResult
  ELSE [Leftover(<<>>) EXCEPT !.paramName = m.name, !.hasValue = TRUE,
                              !.valueIsList = TRUE, !.paramValue = segments]

MatchMultiStringParam(m, segments) ==
  IF Len(segments) = 0 THEN NoResult
  ELSE IF \E i \in 1..Len(segments) : RangeRejects(m, segments[i]) THEN NoResult
  ELSE [Leftover(<<>>) EXCEPT !.paramName = m.name, !.hasValue = TRUE,
                              !.paramValue = <<Join(segments)>>]

\* mutant of MatchOptionalParam: the optional param leaves every segment
\* to the descriptors after it
MatchOptionalParamSkips(m, segments) == Leftover(segments)

MatchOptionalParam(m, segments) ==
  IF Len(segments) = 0 THEN Leftover(<<>>)
  ELSE IF RangeRejects(m, Head(segments)) THEN Leftover(segments)
  ELSE [Leftover(Tail(segments)) EXCEPT !.paramName = m.name, !.hasValue = TRUE,
                                        !.paramValue = <<Head(segments)>>]

MatchParam(m, segments) ==
  IF m.name = <<>> THEN NoResult
  ELSE IF m.single THEN MatchSingleParam(m, segments)
  ELSE IF m.multi THEN MatchMultiParam(m, segments)
  ELSE IF m.multiString THEN MatchMultiStringParam(m, segments)
  ELSE IF m.optional THEN MatchOptionalParam(m, segments)
  ELSE NoResult

WithWildcard(r, w) == [r EXCEPT !.hasWildcard = TRUE, !.wildcard = w]

MatchSingleWildcard(m, segments) ==
  IF Len(segments) = 0 THEN NoResult
  ELSE IF RangeRejects(m, Head(segments)) THEN NoResult
  ELSE WithWildcard(Leftover(Tail(segments)), <<Head(segments)>>)

MatchMultiWildcard(m, segments) ==
  IF Len(segments) = 0 THEN NoResult
  ELSE IF \E i \in 1..Len(segments) : RangeRejects(m, segments[i]) THEN NoResult
  ELSE WithWildcard(Leftover(<<>>), segments)

MatchMultiStringWildcard(m, segments) ==
  IF Len(segments) = 0 THEN NoResult
  ELSE IF \E i \in 1..Len(segments) : RangeRejects(m, segments[i]) THEN NoResult
  ELSE WithWildcard(Leftover(<<>>), <<Join(segments)>>)

MatchOptionalWildcard(m, segments) ==
  IF Len(segments) = 0 THEN Leftover(<<>>)
  ELSE IF RangeRejects(m, Head(segments)) THEN Leftover(segments)
  ELSE WithWildcard(Leftover(Tail(segments)), <<Head(segments)>>)

MatchWildcard(m, segments) ==
  IF m.single THEN MatchSingleWildcard(m, segments)
  ELSE IF m.multi THEN MatchMultiWildcard(m, segments)
  ELSE IF m.multiString THEN MatchMultiStringWildcard(m, segments)
  ELSE IF m.optional THEN MatchOptionalWildcard(m, segments)
  ELSE NoResult

\* SegmentMatcher.match; m is the data the constructor copies
SegmentMatch(m, uriSegments) ==
  CASE m.segmentType = "static" -> MatchStatic(m, uriSegments)
    [] m.segmentType = "param" -> MatchParam(m, uriSegments)
    [] m.segmentType = "wildcard" -> MatchWildcard(m, uriSegments)
    [] OTHER -> NoResult

(***************************************************************************)
(* BasePathMatcher                                                         *)
(***************************************************************************)

NormalizePath(path) ==
  LET parts == Split(ToLower(path))
      trimmed == [i \in 1..Len(parts) |-> Trim(parts[i])]
  IN  <<"/">> \o Join(FilterNonEmpty(trimmed))

\* normalizePath(path).split('/').slice(1): the path `/` gives one empty
\* segment
GetSegments(path) == Tail(Split(NormalizePath(path)))

ParsePattern(pattern) ==
  IF pattern = <<"/">> THEN <<Parse(pattern)>>
  ELSE LET segments == GetSegments(pattern)
       IN  [i \in 1..Len(segments) |-> Parse(segments[i])]

\* mutant of CheckParams: only neighbouring matchers are compared
CheckParamsOfNeighbours(matchers) ==
  \E i, j \in 1..Len(matchers) :
    /\ i + 1 = j
    /\ matchers[i].segmentType = "param"
    /\ matchers[j].segmentType = "param"
    /\ matchers[i].name = matchers[j].name

\* checkParams throws when two param matchers share a name
CheckParams(matchers) ==
  \E i, j \in 1..Len(matchers) :
    /\ i < j
    /\ matchers[i].segmentType = "param"
    /\ matchers[j].segmentType = "param"
    /\ matchers[i].name = matchers[j].name

\* the fields the constructor sets from the parsed segments and the
\* normalized pattern; a segment that failed to parse has thrown as well
PathMatcherOf(segs, normalized) ==
  [err |-> (\E i \in 1..Len(segs) : segs[i].err) \/ CheckParams(segs),
   matchers |-> segs,
   pattern |-> normalized,
   isRoot |-> normalized = <<"/">>]

\* new BasePathMatcher(pattern); err stands for a thrown Error
BasePathMatcher(pattern) ==
  PathMatcherOf(ParsePattern(pattern), NormalizePath(pattern))

EmptyMap == [k \in {} |-> <<>>]

RECURSIVE MatchLoop(_, _, _, _, _)

\* the body of the loop once matcher i has given its result: stop when it
\* is undefined, else take the leftover, the param and the wildcard
MatchStep(matchers, i, params, wildcard, result) ==
  IF ~result.ok
  THEN [isMatched |-> FALSE, params |-> params, wildcard |-> wildcard]
  ELSE MatchLoop(matchers, i + 1, result.leftover,
         IF result.paramName # <<>> /\ result.hasValue
         THEN (result.paramName :>
                 [isList |-> result.valueIsList, v |-> result.paramValue])
              @@ params
         ELSE params,
         IF result.hasWildcard THEN wildcard \o result.wildcard ELSE wildcard)

\* mutant of MatchLoop: segments left over after the last matcher are ignored
MatchLoopIgnoresLeftover(matchers, i, remainingSegments, params, wildcard) ==
  IF i > Len(matchers)
  THEN [isMatched |-> TRUE, params |-> params, wildcard |-> wildcard]
  ELSE IF Len(remainingSegments) = 0
       THEN IF matchers[i].optional
            THEN MatchLoop(matchers, i + 1, remainingSegments, params, wildcard)
            ELSE [isMatched |-> FALSE, params |-> params, wildcard |-> wildcard]
       ELSE MatchStep(matchers, i, params, wildcard,
                      SegmentMatch(matchers[i], remainingSegments))

\* the loop of BasePathMatcher.match over this.matchers, from matcher i on
MatchLoop(matchers, i, remainingSegments, params, wildcard) ==
  IF i > Len(matchers)
  THEN [isMatched |-> Len(remainingSegments) = 0, params |-> params, wildcard |-> wildcard]
  ELSE IF Len(remainingSegments) = 0
       THEN IF matchers[i].optional
            THEN MatchLoop(matchers, i + 1, remainingSegments, params, wildcard)
            ELSE [isMatched |-> FALSE, params |-> params, wildcard |-> wildcard]
       ELSE MatchStep(matchers, i, params, wildcard,
                      SegmentMatch(matchers[i], remainingSegments))

\* mutant of PathMatchResult: the path is joined without its leading slash
PathMatchResultNoSlash(uriSegments, r) ==
  [path |-> Join(uriSegments),
   params |-> IF r.isMatched THEN r.params ELSE EmptyMap,
   wildcard |-> IF r.isMatched THEN r.wildcard ELSE <<>>,
   matched |-> r.isMatched]

\* mutant of PathMatchResult: what was captured before the failure is kept
PathMatchResultKeepsCaptures(uriSegments, r) ==
  [path |-> <<"/">> \o Join(uriSegments),
   params |-> r.params,
   wildcard |-> r.wildcard,
   matched |-> r.isMatched]

\* new PathMatchResult(path, params, wildcard, matched) at the end of match:
\* a failed match carries no params and no wildcard
PathMatchResult(uriSegments, r) ==
  [path |-> <<"/">> \o Join(uriSegments),
   params |-> IF r.isMatched THEN r.params ELSE EmptyMap,
   wildcard |-> IF r.isMatched THEN r.wildcard ELSE <<>>,
   matched |-> r.isMatched]

\* match once the uri has been split into segments
MatchSegments(matchers, uriSegments) ==
  PathMatchResult(uriSegments, MatchLoop(matchers, 1, uriSegments, EmptyMap, <<>>))

\* mutant of Match: the root pattern has no case of its own
MatchWithoutRoot(bm, uri) ==
  MatchSegments(bm.matchers, GetSegments(uri))

\* BasePathMatcher.match: a PathMatchResult
Match(bm, uri) ==
  IF bm.isRoot /\ NormalizePath(uri) = <<"/">>
  THEN [path |-> <<"/">>, params |-> EmptyMap, wildcard |-> <<>>, matched |-> TRUE]
  ELSE MatchSegments(bm.matchers, GetSegments(uri))

(***************************************************************************)
(* BasePubSub                                                              *)
(***************************************************************************)

\* the most subscriptions ever created, publish calls ever issued, and
\* `await tick()` a handler goes through before it settles
MaxSubs == 2
MaxPubs == 2
MaxTicks == 1

\* the pattern string handed to sub: `/:x[a]`
Patterns == {<<"/", ":", "x", "[", "a", "]">>}

\* topic strings handed to pub and unsub: `/A` and `/b`
Topics == {<<"/", "A">>, <<"/", "b">>}

\* a pattern of one static segment, for subscriptions next to those of
\* `/:x[a]`: `/b`
StaticPatterns == {<<"/", "b">>}

\* patterns whose captures meet the reserved keys of the args: `/:topic`,
\* `/:_` and `/*`
ArgPatterns ==
  {<<"/", ":", "t", "o", "p", "i", "c">>, <<"/", ":", "_">>, <<"/", "*">>}

AllPatterns == Patterns \cup StaticPatterns \cup ArgPatterns

\* the strings handed to unsub: topics, and the patterns themselves
UnsubStrings == Topics \cup AllPatterns

StringValue(str) == [isList |-> FALSE, v |-> <<str>>]
ListValue(list) == [isList |-> TRUE, v |-> list]

\* the args handed to pub: { x: "v" }
UserArgs == {<<"x">> :> StringValue(<<"v">>)}

\* args that use the reserved keys, the name of a param and a key of their
\* own: { topic: "v", _: "v", x: "v", k: "v" }
ClashingArgs ==
  {(<<"t", "o", "p", "i", "c">> :> StringValue(<<"v">>))
   @@ (<<"_">> :> StringValue(<<"v">>))
   @@ (<<"x">> :> StringValue(<<"v">>))
   @@ (<<"k">> :> StringValue(<<"v">>))}

\* What a subscriber does when it is called.  result: it returns a promise
\* that resolves ("ok") or rejects ("reject"), or it raises before it
\* returns one ("throw").  ticks: how many `await tick()` it goes through
\* before it settles.  mutates: it may call sub or unsub before its first
\* await.
Handlers ==
  [result : {"ok"}, ticks : 0..MaxTicks, mutates : {FALSE}]
  \cup [result : {"reject", "throw"}, ticks : {0}, mutates : {FALSE}]

\* subscribers registered with once = true: they settle without waiting
OnceHandlers ==
  [result : {"ok", "reject", "throw"}, ticks : {0}, mutates : {FALSE}]

\* subscribers that change the registry while they run
MutatingHandlers ==
  [result : {"ok"}, ticks : {0}, mutates : {TRUE}]

\* the subscriber a handler registers
PlainHandler == [result |-> "ok", ticks |-> 0, mutates |-> FALSE]

\* new BasePathMatcher(topic) for the patterns handed to sub, and
\* subscription.matcher.match(topic) for the topics handed to pub and unsub.
\* A matcher is built from the pattern alone and nothing changes it
\* afterwards, so both are functions of the strings and are computed once
PatternMatcher == [t \in AllPatterns |-> BasePathMatcher(t)]
MatcherMatch == [t \in AllPatterns, u \in UnsubStrings |-> Match(PatternMatcher[t], u)]

VARIABLES
  subs,           \* every Subscription object created so far, by identity
  subscriptions,  \* BasePubSub.subscriptions: identities, in insertion order
  inflightCount,  \* BasePubSub._inflightCount
  pubs,           \* the calls of pub so far, each with its position
  immediates,     \* the setImmediate callbacks scheduled and not yet run
  matching        \* a pattern and a path on their way through a
                  \* BasePathMatcher, outside the bus

vars == <<subs, subscriptions, inflightCount, pubs, immediates, matching>>

\* no matcher is being exercised outside the bus
NoMatching == [pc |-> "none"]

Init ==
  /\ subs = <<>>
  /\ subscriptions = <<>>
  /\ inflightCount = 0
  /\ pubs = <<>>
  /\ immediates = <<>>
  /\ matching = NoMatching

SeqToSet(q) == {q[i] : i \in 1..Len(q)}

\* mutant of Delete: nothing leaves the registry
DeleteNothing(registry, gone) == registry

\* Set.prototype.delete for every identity in gone
Delete(registry, gone) == SelectSeq(registry, LAMBDA id : id \notin gone)

\* mutant of SubscriptionMatch: every subscription is reported as a match
SubscriptionMatchAlways(id, topic) ==
  [subscription |-> id, match |-> TRUE, params |-> EmptyMap, wildcard |-> <<>>]

\* { subscription, match, params, wildcard } from a PathMatchResult
MatchedSubscription(id, matchResult) ==
  [subscription |-> id, match |-> matchResult.matched,
   params |-> matchResult.params, wildcard |-> matchResult.wildcard]

\* one element of the map in filterSubs
SubscriptionMatch(id, topic) ==
  IF topic \in DOMAIN subs[id].matchedTopics
  THEN [subscription |-> id, match |-> TRUE,
        params |-> subs[id].matchedTopics[topic], wildcard |-> <<>>]
  ELSE MatchedSubscription(id, MatcherMatch[subs[id].topic, topic])

\* mutant of FilterSubs: find instead of filter, only the first match is kept
FilterSubsFirstMatch(registry, topic) ==
  LET all == SelectSeq([i \in 1..Len(registry) |-> SubscriptionMatch(registry[i], topic)],
                       LAMBDA m : m.match)
  IN  IF all = <<>> THEN <<>> ELSE <<Head(all)>>

\* BasePubSub.filterSubs over a registry
FilterSubs(registry, topic) ==
  SelectSeq([i \in 1..Len(registry) |-> SubscriptionMatch(registry[i], topic)],
            LAMBDA m : m.match)

\* the subscriptions of a list of matches
SubscriptionsOf(ms) == {ms[i].subscription : i \in 1..Len(ms)}

\* what unsub(topic) deletes: the subscriptions filterSubs selects
MatchedIds(registry, topic) == SubscriptionsOf(FilterSubs(registry, topic))

\* mutant of FullArgs: the spreads are written in the opposite order, so
\* the keys of the caller win
FullArgsUserWins(args, m, topic) ==
  args
  @@ m.params
  @@ (<<"_">> :> ListValue(m.wildcard))
  @@ (<<"t", "o", "p", "i", "c">> :> StringValue(topic))

\* mutant of FullArgs: a nested mapping of the caller is kept where a
\* capture or a reserved key meets it
FullArgsKeepsMappings(args, m, topic) ==
  [k \in {k \in DOMAIN args : "isMap" \in DOMAIN args[k]} |-> args[k]]
  @@ (<<"t", "o", "p", "i", "c">> :> StringValue(topic))
  @@ (<<"_">> :> ListValue(m.wildcard))
  @@ m.params
  @@ args

\* { ...args, ...(m.params || {}), _: m.wildcard || [], topic }
FullArgs(args, m, topic) ==
  (<<"t", "o", "p", "i", "c">> :> StringValue(topic))
  @@ (<<"_">> :> ListValue(m.wildcard))
  @@ m.params
  @@ args

\* the object literal in BasePubSub.sub; regBy, removed and removedBy are
\* history: the publication whose handler created the subscription (0: the
\* caller), whether it was deleted from the registry, and by what
Subscription(topic, handler, once, by) ==
  [topic |-> topic, handler |-> handler, matcher |-> PatternMatcher[topic],
   once |-> once, matchedTopics |-> EmptyMap,
   regBy |-> by, removed |-> FALSE, removedBy |-> 0]

\* history: record in subs that the identities in gone left the registry,
\* through the handler run by publication `by` (0: unsub(string) called by
\* the application, -1: the once-deletion, -2: unsub(handle) called by
\* the application)
MarkRemoved(ss, registry, gone, by) ==
  [id \in 1..Len(ss) |->
     IF id \in gone /\ id \in SeqToSet(registry) /\ ~ss[id].removed
     THEN [ss[id] EXCEPT !.removed = TRUE, !.removedBy = by]
     ELSE ss[id]]

------------------------------------------------------------------------------
\* BasePubSub.sub, called by the application
Sub(topic, handler, once) ==
  /\ Len(subs) < MaxSubs
  /\ ~PatternMatcher[topic].err
  /\ subs' = Append(subs, Subscription(topic, handler, once, 0))
  /\ subscriptions' = Append(subscriptions, Len(subs) + 1)
  /\ UNCHANGED <<inflightCount, pubs, immediates, matching>>

\* mutant of UnsubString: the string is compared with the pattern text of
\* the subscriptions instead of being matched as a topic
UnsubStringByText(registry, topic) ==
  SelectSeq(registry, LAMBDA id : subs[id].topic # topic)

\* what unsub(topic: string) leaves of a registry: every subscription that
\* filterSubs selects for the string is deleted
UnsubString(registry, topic) == Delete(registry, MatchedIds(registry, topic))

\* mutant of UnsubSubscription: the records are told apart by pattern and
\* handler, so the duplicates of a record leave with it
UnsubSubscriptionByHandler(registry, id) ==
  SelectSeq(registry, LAMBDA r : \/ subs[r].topic # subs[id].topic
                                 \/ subs[r].handler # subs[id].handler)

\* mutant of UnsubSubscription: a handle that is not registered is put back
UnsubSubscriptionToggle(registry, id) ==
  IF id \in SeqToSet(registry) THEN Delete(registry, {id}) ELSE Append(registry, id)

\* what unsub(subscription) leaves of a registry
UnsubSubscription(registry, id) == Delete(registry, {id})

\* BasePubSub.unsub(string), called by the application
UnsubTopic(topic) ==
  /\ subscriptions' = UnsubString(subscriptions, topic)
  /\ subs' = MarkRemoved(subs, subscriptions, MatchedIds(subscriptions, topic), 0)
  /\ UNCHANGED <<inflightCount, pubs, immediates, matching>>

\* BasePubSub.unsub(subscription), called by the application with a handle
\* that sub returned, registered or not
UnsubHandle(id) ==
  /\ id \in 1..Len(subs)
  /\ subscriptions' = UnsubSubscription(subscriptions, id)
  /\ subs' = MarkRemoved(subs, subscriptions, {id}, -2)
  /\ UNCHANGED <<inflightCount, pubs, immediates, matching>>

\* mutant of PubCall: the counter is not touched before the first await
PubCallCountsLate(topic, args) ==
  /\ Len(pubs) < MaxPubs
  /\ inflightCount' = inflightCount
  /\ pubs' = Append(pubs,
       [topic |-> topic, args |-> args, pc |-> "tick", matches |-> <<>>,
        pending |-> 0, invoked |-> <<>>, logged |-> {},
        createdAtCall |-> Len(subs),
        goneAtCall |-> {id \in 1..Len(subs) : subs[id].removed}])
  /\ immediates' = Append(immediates,
       [kind |-> "pub", pub |-> Len(pubs) + 1, idx |-> 0, ticks |-> 0])
  /\ UNCHANGED <<subs, subscriptions, matching>>

\* pub, from the call to its first await: the counter is incremented and
\* tick() schedules the immediate that resumes the call.  createdAtCall
\* and goneAtCall are history: how many subscriptions had been created,
\* and which of them had left the registry, when pub was called
PubCall(topic, args) ==
  /\ Len(pubs) < MaxPubs
  /\ inflightCount' = inflightCount + 1
  /\ pubs' = Append(pubs,
       [topic |-> topic, args |-> args, pc |-> "tick", matches |-> <<>>,
        pending |-> 0, invoked |-> <<>>, logged |-> {},
        createdAtCall |-> Len(subs),
        goneAtCall |-> {id \in 1..Len(subs) : subs[id].removed}])
  /\ immediates' = Append(immediates,
       [kind |-> "pub", pub |-> Len(pubs) + 1, idx |-> 0, ticks |-> 0])
  /\ UNCHANGED <<subs, subscriptions, matching>>

\* pub resumes after its tick: filterSubs selects the matches, and every
\* map callback runs up to its own `await tick()`.  With no match
\* Promise.all resolves at once and pub finishes
PubSnapshot ==
  /\ immediates # <<>>
  /\ Head(immediates).kind = "pub"
  /\ \E p \in {Head(immediates).pub} :
     \E ms \in {FilterSubs(subscriptions, pubs[p].topic)} :
         /\ pubs' = [pubs EXCEPT ![p].matches = ms,
                                 ![p].pending = Len(ms),
                                 ![p].pc = IF Len(ms) = 0 THEN "resolved" ELSE "dispatch"]
         /\ inflightCount' = IF Len(ms) = 0 THEN inflightCount - 1 ELSE inflightCount
         /\ immediates' = Tail(immediates) \o
              [k \in 1..Len(ms) |-> [kind |-> "match", pub |-> p, idx |-> k, ticks |-> 0]]
  /\ UNCHANGED <<subs, subscriptions, matching>>

\* what the handler of a subscription may do to the registry when it runs:
\* nothing, register a subscription (add), or unsubscribe a topic string or
\* a handle (gone: the identities that leave the registry)
Effects(handler) ==
  {[add |-> FALSE, topic |-> <<>>, gone |-> {}]}
  \cup IF handler.mutates
       THEN {[add |-> TRUE, topic |-> t, gone |-> {}] : t \in Patterns}
            \cup {[add |-> FALSE, topic |-> <<>>, gone |-> MatchedIds(subscriptions, t)] :
                    t \in Topics}
            \cup {[add |-> FALSE, topic |-> <<>>, gone |-> {id}] : id \in 1..Len(subs)}
       ELSE {}

\* mutant of AfterCallback: a callback that throws takes the callbacks of
\* the other matches of its publication with it
AfterCallbackAborts(q, p, threw) ==
  IF threw THEN SelectSeq(Tail(q), LAMBDA e : ~(e.pub = p /\ e.kind = "match"))
  ELSE Tail(q)

\* the immediates left when a map callback of publication p has run: the
\* callbacks of the other matches stay scheduled, also when this one threw
AfterCallback(q, p, threw) == Tail(q)

\* does Promise.all still wait for the map callbacks of a publication
AwaitsCallbacks(pub) == pub.pc = "dispatch"

\* One map callback of pub resumes after its tick: it builds the args and
\* calls the handler, which runs up to its first await (registered is
\* history: was the subscription still in the registry at that moment).  A handler that
\* raises makes the callback reject: the once-deletion is skipped,
\* Promise.all rejects and pub fails at its await, before the decrement.
\* Otherwise .catch is attached to the returned promise, a once
\* subscription is deleted and the callback resolves without waiting for
\* the handler; when the last callback has resolved pub decrements the
\* counter and finishes.
Dispatch ==
  /\ immediates # <<>>
  /\ Head(immediates).kind = "match"
  /\ UNCHANGED matching
  /\ LET p == Head(immediates).pub
         k == Head(immediates).idx
         m == pubs[p].matches[k]
         s == m.subscription
         handler == subs[s].handler
         fullArgs == FullArgs(pubs[p].args, m, pubs[p].topic)
         threw == handler.result = "throw"
     IN
     \E eff \in Effects(handler) :
       /\ eff.add => Len(subs) < MaxSubs
       /\ LET subsA == IF eff.add
                       THEN Append(subs, Subscription(eff.topic, PlainHandler, FALSE, p))
                       ELSE MarkRemoved(subs, subscriptions, eff.gone, p)
              regA == IF eff.add
                      THEN Append(subscriptions, Len(subs) + 1)
                      ELSE Delete(subscriptions, eff.gone)
              onceGone == IF ~threw /\ subs[s].once THEN {s} ELSE {}
              pendingB == IF threw THEN pubs[p].pending ELSE pubs[p].pending - 1
              pcB == IF ~AwaitsCallbacks(pubs[p]) THEN pubs[p].pc
                     ELSE IF threw THEN "rejected"
                     ELSE IF pendingB = 0 THEN "resolved"
                     ELSE "dispatch"
          IN  /\ subs' = MarkRemoved(subsA, regA, onceGone, -1)
              /\ subscriptions' = Delete(regA, onceGone)
              /\ pubs' = [pubs EXCEPT
                   ![p].invoked = Append(@, [sub |-> s, args |-> fullArgs,
                                            registered |-> s \in SeqToSet(subscriptions)]),
                   ![p].logged = IF handler.result = "reject" /\ handler.ticks = 0
                                 THEN @ \cup {s} ELSE @,
                   ![p].pending = pendingB,
                   ![p].pc = pcB]
              /\ inflightCount' = IF pcB = "resolved" /\ pubs[p].pc = "dispatch"
                                  THEN inflightCount - 1 ELSE inflightCount
              /\ immediates' = AfterCallback(immediates, p, threw) \o
                   (IF ~threw /\ handler.ticks > 0
                    THEN <<[kind |-> "handler", pub |-> p, idx |-> k, ticks |-> handler.ticks]>>
                    ELSE <<>>)

\* a handler resumes after an `await tick()`: it goes to its next tick, or
\* its promise settles, and a rejection reaches handleError through .catch
HandlerResume ==
  /\ immediates # <<>>
  /\ Head(immediates).kind = "handler"
  /\ LET e == Head(immediates)
         s == pubs[e.pub].matches[e.idx].subscription
     IN  IF e.ticks > 1
         THEN /\ immediates' = Append(Tail(immediates), [e EXCEPT !.ticks = @ - 1])
              /\ UNCHANGED pubs
         ELSE /\ immediates' = Tail(immediates)
              /\ pubs' = [pubs EXCEPT ![e.pub].logged =
                            IF subs[s].handler.result = "reject" THEN @ \cup {s} ELSE @]
  /\ UNCHANGED <<subs, subscriptions, inflightCount, matching>>

\* the application subscribes with sub and publishes; subscribers succeed,
\* fail or take their time, and leave the registry alone
Next ==
  \/ \E topic \in Patterns, handler \in Handlers : Sub(topic, handler, FALSE)
  \/ \E topic \in Topics, args \in UserArgs : PubCall(topic, args)
  \/ PubSnapshot
  \/ Dispatch
  \/ HandlerResume

Spec == Init /\ [][Next]_vars

\* the application subscribes with sub(topic, handler, true) and publishes;
\* the handlers succeed or fail without waiting
NextOnce ==
  \/ \E topic \in Patterns, handler \in OnceHandlers : Sub(topic, handler, TRUE)
  \/ \E topic \in Topics, args \in UserArgs : PubCall(topic, args)
  \/ PubSnapshot
  \/ Dispatch

SpecOnce == Init /\ [][NextOnce]_vars

\* the application subscribes and publishes; subscribers subscribe and
\* unsubscribe (a topic string or a handle) while they run
NextMut ==
  \/ \E topic \in Patterns, handler \in MutatingHandlers, once \in BOOLEAN :
       Sub(topic, handler, once)
  \/ \E topic \in Topics, args \in UserArgs : PubCall(topic, args)
  \/ PubSnapshot
  \/ Dispatch

SpecMut == Init /\ [][NextMut]_vars

\* `await pubSub.pub(topic, args)` issued when every earlier publish call
\* has been awaited: it has resolved, or has rejected into its caller
PubCallAwaited(topic, args) ==
  /\ \A p \in 1..Len(pubs) : pubs[p].pc \in {"resolved", "rejected"}
  /\ PubCall(topic, args)

\* the application subscribes with sub(topic, handler, true) and publishes
\* strictly one call after another
NextSerial ==
  \/ \E topic \in Patterns, handler \in OnceHandlers : Sub(topic, handler, TRUE)
  \/ \E topic \in Topics, args \in UserArgs : PubCallAwaited(topic, args)
  \/ PubSnapshot
  \/ Dispatch

SpecSerial == Init /\ [][NextSerial]_vars

\* the handler that once(topic) registers, `async () => resolve()`: it
\* completes the token and returns a resolved promise
ResolveHandler == [result |-> "ok", ticks |-> 0, mutates |-> FALSE]

\* BasePubSub.once(topic): the token is the promise that the handler of
\* the new once subscription resolves, so it is completed as soon as that
\* handler has been called
Once(topic) == Sub(topic, ResolveHandler, TRUE)

\* the application takes tokens with once(topic) and publishes
NextToken ==
  \/ \E topic \in Patterns : Once(topic)
  \/ \E topic \in Topics, args \in UserArgs : PubCall(topic, args)
  \/ PubSnapshot
  \/ Dispatch

SpecToken == Init /\ [][NextToken]_vars

\* the application subscribes to the patterns and unsubscribes strings and
\* handles; nothing is published
NextUnsub ==
  \/ \E topic \in Patterns \cup StaticPatterns, once \in BOOLEAN :
       Sub(topic, PlainHandler, once)
  \/ \E topic \in UnsubStrings : UnsubTopic(topic)
  \/ \E id \in 1..MaxSubs : UnsubHandle(id)

SpecUnsub == Init /\ [][NextUnsub]_vars

\* the application subscribes the same handler to the same pattern again
\* and again, unsubscribes handles, and publishes one call after another
NextDup ==
  \/ \E topic \in Patterns : Sub(topic, PlainHandler, FALSE)
  \/ \E id \in 1..MaxSubs : UnsubHandle(id)
  \/ \E topic \in Topics, args \in UserArgs : PubCallAwaited(topic, args)
  \/ PubSnapshot
  \/ Dispatch

SpecDup == Init /\ [][NextDup]_vars

\* the application subscribes to patterns with params and wildcards and
\* publishes, one call after another, with args of its own
NextArgs ==
  \/ \E topic \in Patterns \cup ArgPatterns : Sub(topic, PlainHandler, FALSE)
  \/ \E topic \in Topics, args \in UserArgs \cup ClashingArgs :
       PubCallAwaited(topic, args)
  \/ PubSnapshot
  \/ Dispatch

SpecArgs == Init /\ [][NextArgs]_vars

------------------------------------------------------------------------------
\* patterns in which two params share a name, in several arities and
\* positions: `/:x/:x`, `/:x/b/:x+`, `/:x[a]/:x?` and `/:x**/b/:x`
DuplicatePatterns ==
  {<<"/", ":", "x", "/", ":", "x">>,
   <<"/", ":", "x", "/", "b", "/", ":", "x", "+">>,
   <<"/", ":", "x", "[", "a", "]", "/", ":", "x", "?">>,
   <<"/", ":", "x", "*", "*", "/", "b", "/", ":", "x">>}

\* BasePubSub.sub with a pattern that may not compile: the matcher is
\* constructed first, and when the constructor throws nothing is added.
\* matching keeps the outcome of the last call, with the registry as it was
\* before the call and as the call left it
SubCall(topic, handler, once) ==
  /\ Len(subs) < MaxSubs
  /\ \E bm \in {BasePathMatcher(topic)} :
       /\ subs' = IF bm.err THEN subs
                  ELSE Append(subs, [topic |-> topic, handler |-> handler,
                                     matcher |-> bm, once |-> once,
                                     matchedTopics |-> EmptyMap, regBy |-> 0,
                                     removed |-> FALSE, removedBy |-> 0])
       /\ subscriptions' = IF bm.err THEN subscriptions
                           ELSE Append(subscriptions, Len(subs) + 1)
       /\ matching' = [pc |-> IF bm.err THEN "subThrew" ELSE "subReturned",
                       pattern |-> topic,
                       before |-> subscriptions,
                       after |-> subscriptions']
  /\ UNCHANGED <<inflightCount, pubs, immediates>>

NextSubCall ==
  \/ \E topic \in Patterns \cup StaticPatterns \cup DuplicatePatterns,
        once \in BOOLEAN : SubCall(topic, PlainHandler, once)
  \/ \E id \in 1..MaxSubs : UnsubHandle(id)

SpecSubCall == Init /\ [][NextSubCall]_vars

(***************************************************************************)
(* BasePathMatcher on its own: a pattern is compiled and a path matched     *)
(***************************************************************************)

\* the most segments a pattern is written with; a path is written with at
\* most one fragment more
MaxSegments == 2

\* the segments patterns are written with: `a`, `:x`, `:x?`, `:x+`, `:y**`,
\* `:x[a]`, `*`, `**[a]` and `:`
PatternSegments ==
  {<<"a">>, <<":", "x">>, <<":", "x", "?">>, <<":", "x", "+">>,
   <<":", "y", "*", "*">>, <<":", "x", "[", "a", "]">>, <<"*">>,
   <<"*", "*", "[", "a", "]">>, <<":">>}

\* the fragments paths are written with: `a`, `B` and the empty fragment
\* of a doubled or trailing slash
PathFragments == {<<"a">>, <<" ", "B">>, <<>>}

SeqsUpTo(S, n) == UNION {[1..k -> S] : k \in 0..n}

\* the text of a pattern or a path: `/` and the pieces joined with `/`
SlashJoined(pieces) == <<"/">> \o Join(pieces)

MatchPatterns == {SlashJoined(segs) : segs \in SeqsUpTo(PatternSegments, MaxSegments)}
MatchPaths == {SlashJoined(frags) : frags \in SeqsUpTo(PathFragments, MaxSegments + 1)}

\* a pattern and a path are chosen; the bus is not used
InitMatch ==
  /\ subs = <<>>
  /\ subscriptions = <<>>
  /\ inflightCount = 0
  /\ pubs = <<>>
  /\ immediates = <<>>
  /\ matching \in [pc : {"new"}, pattern : MatchPatterns, uri : MatchPaths,
                   matcher : {<<>>}, result : {<<>>}]

\* new BasePathMatcher(pattern), which may throw
Construct ==
  /\ matching.pc = "new"
  /\ \E bm \in {BasePathMatcher(matching.pattern)} :
       matching' = [matching EXCEPT !.matcher = bm,
                                   !.pc = IF bm.err THEN "threw" ELSE "built"]
  /\ UNCHANGED <<subs, subscriptions, inflightCount, pubs, immediates>>

\* matcher.match(uri)
MatchCall ==
  /\ matching.pc = "built"
  /\ matching' = [matching EXCEPT !.result = Match(matching.matcher, matching.uri),
                                 !.pc = "matched"]
  /\ UNCHANGED <<subs, subscriptions, inflightCount, pubs, immediates>>

NextMatch ==
  \/ Construct
  \/ MatchCall

SpecMatch == InitMatch /\ [][NextMatch]_vars

(***************************************************************************)
(* BasePathMatcher with patterns that are not written in normalized form   *)
(***************************************************************************)

\* the pieces patterns are written with: `A`, `:X`, `*`, `:x[A]` and the
\* empty piece of a doubled or trailing slash
WrittenSegments ==
  {<<"A">>, <<":", "X">>, <<"*">>, <<":", "x", "[", "A", "]">>, <<>>}

WrittenPatterns ==
  {SlashJoined(segs) : segs \in SeqsUpTo(WrittenSegments, MaxSegments + 1)}

\* a pattern and a path are chosen as they are written; the bus is not used
InitWritten ==
  /\ subs = <<>>
  /\ subscriptions = <<>>
  /\ inflightCount = 0
  /\ pubs = <<>>
  /\ immediates = <<>>
  /\ matching \in [pc : {"new"}, pattern : WrittenPatterns, uri : MatchPaths,
                   matcher : {<<>>}, result : {<<>>}]

NextWritten ==
  \/ Construct
  \/ MatchCall

SpecWritten == InitWritten /\ [][NextWritten]_vars

(***************************************************************************)
(* PathSegment and SegmentMatcher on their own: one segment of a pattern   *)
(* is written, parsed, and matched against a list of path segments         *)
(***************************************************************************)

\* the suffixes and leading modifiers of the segment grammar, and none
Suffixes == {<<>>, <<"*">>, <<"*", "*">>, <<"+">>, <<"?">>}
Modifiers == Suffixes \ {<<>>}

\* the character class segments are written with: `[a]`
Classes == {<<"[", "a", "]">>}

\* the ways a segment is written.  param: `:name`, a class or none, a
\* suffix or none.  standalone: a modifier.  bracketFirst: a class, a suffix
\* or none.  leadBracket: a modifier, a class, a suffix or none.  static:
\* plain text
SegmentForms ==
  [kind : {"param"}, lead : {<<>>}, name : {<<"x">>},
   class : Classes \cup {<<>>}, suffix : Suffixes]
  \cup [kind : {"standalone"}, lead : Modifiers, name : {<<>>},
        class : {<<>>}, suffix : {<<>>}]
  \cup [kind : {"bracketFirst"}, lead : {<<>>}, name : {<<>>},
        class : Classes, suffix : Suffixes]
  \cup [kind : {"leadBracket"}, lead : Modifiers, name : {<<>>},
        class : Classes, suffix : Suffixes]
  \cup [kind : {"static"}, lead : {<<>>}, name : {<<"a">>},
        class : {<<>>}, suffix : {<<>>}]

\* the text of a segment written in the given form
Written(form) ==
  (IF form.kind = "param" THEN <<":">> ELSE <<>>)
  \o form.lead \o form.name \o form.class \o form.suffix

\* the path segments handed to SegmentMatcher.match: `a` is in the class,
\* `x` is not, `ax` is in part
SegmentFragments == {<<"a">>, <<"x">>, <<"a", "x">>}

\* the lists getSegments gives: non-empty segments, and for the path `/`
\* one empty segment; the empty list is what is left when all is consumed
SegmentLists == SeqsUpTo(SegmentFragments, MaxSegments + 1) \cup {<<<<>>>>}

\* a form and a list of path segments are chosen; the bus is not used
InitSegment ==
  /\ subs = <<>>
  /\ subscriptions = <<>>
  /\ inflightCount = 0
  /\ pubs = <<>>
  /\ immediates = <<>>
  /\ matching \in [pc : {"written"}, form : SegmentForms, uri : SegmentLists,
                   matcher : {<<>>}, result : {<<>>}]

\* new SegmentMatcher(new PathSegment(raw)); the PathSegment may throw
ParseSegment ==
  /\ matching.pc = "written"
  /\ \E d \in {Parse(Written(matching.form))} :
       matching' = [matching EXCEPT !.matcher = d,
                                   !.pc = IF d.err THEN "threw" ELSE "parsed"]
  /\ UNCHANGED <<subs, subscriptions, inflightCount, pubs, immediates>>

\* segmentMatcher.match(uriSegments)
SegmentMatchCall ==
  /\ matching.pc = "parsed"
  /\ matching' = [matching EXCEPT
                    !.result = SegmentMatch(matching.matcher, matching.uri),
                    !.pc = "segmentMatched"]
  /\ UNCHANGED <<subs, subscriptions, inflightCount, pubs, immediates>>

NextSegment ==
  \/ ParseSegment
  \/ SegmentMatchCall

SpecSegment == InitSegment /\ [][NextSegment]_vars

------------------------------------------------------------------------------
\* segments that are not written in any of the forms: the text is kept in
\* name and kind says what is wrong with it.  empty: nothing, or a blank.
\* emptyName: `:`, `:?`, `:[a]*`.  unknownSuffix: `:x[a]b`, `:x[a]*?`,
\* `[a]b`, `[a]++`, `*[a]b`.  suffixAfterName: `:x*?`, where `*?` follows
\* the name.  unterminatedParam: `:x[a`, `:x[a*`.  unterminatedWildcard:
\* `[a`, `*[a`, `[a*`
MalformedTexts ==
  [empty |-> {<<>>, <<" ">>},
   emptyName |-> {<<":">>, <<":", "?">>, <<":", "[", "a", "]", "*">>},
   unknownSuffix |-> {<<":", "x", "[", "a", "]", "b">>,
                      <<":", "x", "[", "a", "]", "*", "?">>,
                      <<"[", "a", "]", "b">>,
                      <<"[", "a", "]", "+", "+">>,
                      <<"*", "[", "a", "]", "b">>},
   suffixAfterName |-> {<<":", "x", "*", "?">>},
   unterminatedParam |-> {<<":", "x", "[", "a">>, <<":", "x", "[", "a", "*">>},
   unterminatedWildcard |-> {<<"[", "a">>, <<"*", "[", "a">>, <<"[", "a", "*">>}]

MalformedKinds == DOMAIN MalformedTexts

MalformedForms ==
  UNION {[kind : {k}, lead : {<<>>}, name : MalformedTexts[k],
          class : {<<>>}, suffix : {<<>>}] : k \in MalformedKinds}

\* a segment, well formed or not, and a list of path segments are chosen
InitMalformed ==
  /\ subs = <<>>
  /\ subscriptions = <<>>
  /\ inflightCount = 0
  /\ pubs = <<>>
  /\ immediates = <<>>
  /\ matching \in [pc : {"written"}, form : SegmentForms \cup MalformedForms,
                   uri : SeqsUpTo(SegmentFragments, MaxSegments),
                   matcher : {<<>>}, result : {<<>>}]

NextMalformed ==
  \/ ParseSegment
  \/ SegmentMatchCall

SpecMalformed == InitMalformed /\ [][NextMalformed]_vars

\* patterns of a static segment, an optional descriptor and a last
\* segment: `/a/:x?/b`, `/a/:x[0-9]?/b`, and the same with `?` and `[0-9]?`
\* in the middle and with `:y` at the end
OptionalSegments ==
  {<<":", "x", "?">>, <<":", "x", "[", "0", "-", "9", "]", "?">>,
   <<"?">>, <<"[", "0", "-", "9", "]", "?">>}
LastSegments == {<<"b">>, <<":", "y">>}
OptionalPattern(opt, last) == SlashJoined(<<<<"a">>, opt, last>>)
OptionalPatterns ==
  {OptionalPattern(opt, last) : opt \in OptionalSegments, last \in LastSegments}

\* the paths they are matched against: `/a/b`, `/a/1/b`, ...
OptionalFragments == {<<"a">>, <<"b">>, <<"1">>}
OptionalPaths ==
  {SlashJoined(frags) : frags \in SeqsUpTo(OptionalFragments, MaxSegments + 1)}

\* one of the patterns and a path are chosen; the bus is not used
InitOptional ==
  /\ subs = <<>>
  /\ subscriptions = <<>>
  /\ inflightCount = 0
  /\ pubs = <<>>
  /\ immediates = <<>>
  /\ matching \in [pc : {"new"}, pattern : OptionalPatterns, uri : OptionalPaths,
                   matcher : {<<>>}, result : {<<>>}]

SpecOptional == InitOptional /\ [][NextMatch]_vars

(***************************************************************************)
(* merge (utils/recursion): objects live in a heap, so that what a call    *)
(* writes to, copies and shares can be told apart                          *)
(***************************************************************************)

\* values that are not plain objects: a number, null, and an array, which
\* merge never looks into
NumberValue(n) == [isNumber |-> TRUE, v |-> n]
NullValue == [isNull |-> TRUE]
Scalars == {NumberValue(1), NullValue, ListValue(<<<<"v">>>>)}

\* an object literal: a mapping from keys to scalars and object literals
ObjectValue(entries) == [isMap |-> TRUE, entries |-> entries]
IsObjectValue(val) == "isMap" \in DOMAIN val

\* in the heap an object is a mapping from keys to scalars and references
Ref(addr) == [ref |-> addr]
IsRef(cell) == "ref" \in DOMAIN cell

\* mutant of SetKey: an array put where an array is gets appended to it
SetKeyConcatenating(obj, key, value) ==
  [k \in DOMAIN obj \cup {key} |->
     IF k # key THEN obj[k]
     ELSE IF /\ key \in DOMAIN obj
             /\ "isList" \in DOMAIN obj[key]
             /\ "isList" \in DOMAIN value
          THEN ListValue(obj[key].v \o value.v)
          ELSE value]

\* target[key] = value
SetKey(obj, key, value) ==
  [k \in DOMAIN obj \cup {key} |-> IF k = key THEN value ELSE obj[k]]

\* the heap with one more object, and the address of that object
Allocated(heap, obj) == [heap |-> Append(heap, obj), addr |-> Len(heap) + 1]

RECURSIVE AllocKeys(_, _, _, _)

\* the object under construction once the literal of key k is in the heap
AllocNested(r, entries, keys, obj, k) ==
  AllocKeys(r.heap, entries, keys \ {k}, SetKey(obj, k, Ref(r.addr)))

\* evaluating an object literal: nested literals are allocated first
AllocKeys(heap, entries, keys, obj) ==
  IF keys = {} THEN Allocated(heap, obj)
  ELSE LET k == CHOOSE k \in keys : TRUE IN
       IF IsObjectValue(entries[k])
       THEN AllocNested(AllocKeys(heap, entries[k].entries,
                                  DOMAIN entries[k].entries, <<>>),
                        entries, keys, obj, k)
       ELSE AllocKeys(heap, entries, keys \ {k}, SetKey(obj, k, entries[k]))

Alloc(heap, literal) ==
  AllocKeys(heap, literal.entries, DOMAIN literal.entries, <<>>)

RECURSIVE Deref(_, _)
\* the object at an address as a literal, for structural comparison
Deref(heap, addr) ==
  ObjectValue([k \in DOMAIN heap[addr] |->
                 IF IsRef(heap[addr][k]) THEN Deref(heap, heap[addr][k].ref)
                 ELSE heap[addr][k]])

\* mutant of ShallowCopy: the object itself is used as target
NoCopy(heap, addr) == [heap |-> heap, addr |-> addr]

\* { ...obj }: a new object with the same cells
ShallowCopy(heap, addr) == Allocated(heap, heap[addr])

RECURSIVE MergeKeys(_, _, _, _)

\* target[key] = mergeObjects({ ...targetValue }, sourceValue), where c is
\* the copy and done the heap after the recursive call
MergeNested(done, target, source, keys, k, c) ==
  MergeKeys([done EXCEPT ![target] = SetKey(@, k, Ref(c))],
            target, source, keys \ {k})

\* mutant of MergeInto: lists aside, an object of apply replaces the
\* object of base without being merged with it
MergeIntoReplaces(copy, target, source, keys, k, sourceAddr) ==
  MergeKeys([copy.heap EXCEPT ![target] = SetKey(@, k, Ref(sourceAddr))],
            target, source, keys \ {k})

\* the recursive call on the copy c of targetValue
MergeInto(copy, target, source, keys, k, sourceAddr) ==
  MergeNested(MergeKeys(copy.heap, copy.addr, sourceAddr,
                        DOMAIN copy.heap[sourceAddr]),
              target, source, keys, k, copy.addr)

\* mergeObjects(target, source): the forEach over the keys of source that
\* are still to do
MergeKeys(heap, target, source, keys) ==
  IF keys = {} THEN heap
  ELSE LET k == CHOOSE k \in keys : TRUE IN
       IF /\ IsRef(heap[source][k])
          /\ k \in DOMAIN heap[target]
          /\ IsRef(heap[target][k])
       THEN MergeInto(ShallowCopy(heap, heap[target][k].ref),
                      target, source, keys, k, heap[source][k].ref)
       ELSE MergeKeys([heap EXCEPT ![target] = SetKey(@, k, heap[source][k])],
                      target, source, keys \ {k})

\* mergeObjects({ ...base }, apply), given the copy of base
MergeObjects(copy, apply) ==
  [heap |-> MergeKeys(copy.heap, copy.addr, apply, DOMAIN copy.heap[apply]),
   addr |-> copy.addr]

\* merge(base, apply): the heap after the call and the address returned
Merge(heap, base, apply) == MergeObjects(ShallowCopy(heap, base), apply)

\* the object literals merge is called with.  Keys: a and b.  Flat: keys
\* hold 1 or an array.  Nested: keys hold a scalar or a flat object.
\* Deep: a holds an object whose a holds a flat object
MergeKeysUsed == {"a", "b"}
ObjectsOver(values) ==
  {ObjectValue(e) : e \in UNION {[K -> values] : K \in SUBSET MergeKeysUsed}}
FlatObjects == ObjectsOver({NumberValue(1), ListValue(<<<<"v">>>>)})
NestedObjects == ObjectsOver(Scalars \cup FlatObjects)
DeepObjects ==
  {ObjectValue("a" :> ObjectValue("a" :> f)) : f \in FlatObjects}
MergeObjectsUsed == NestedObjects \cup DeepObjects

\* base and apply have been evaluated, or merge is called with one object
\* for both; the bus is not used
InitMerge ==
  /\ subs = <<>>
  /\ subscriptions = <<>>
  /\ inflightCount = 0
  /\ pubs = <<>>
  /\ immediates = <<>>
  /\ \E b \in MergeObjectsUsed, a \in MergeObjectsUsed, same \in BOOLEAN :
       /\ same => a = b
       /\ \E hb \in {Alloc(<<>>, b)} :
            \E ha \in {IF same THEN hb ELSE Alloc(hb.heap, a)} :
              matching = [pc |-> "merge", heap |-> ha.heap, base |-> hb.addr,
                          apply |-> ha.addr, before |-> ha.heap, result |-> 0]

\* merge(base, apply)
MergeCall ==
  /\ matching.pc = "merge"
  /\ \E r \in {Merge(matching.heap, matching.base, matching.apply)} :
       matching' = [matching EXCEPT !.heap = r.heap, !.result = r.addr,
                                   !.pc = "merged"]
  /\ UNCHANGED <<subs, subscriptions, inflightCount, pubs, immediates>>

NextMerge == MergeCall

SpecMerge == InitMerge /\ [][NextMerge]_vars

\* args that hold a nested mapping under the reserved keys, the name of a
\* param and a key of their own:
\* { topic: { k: "v" }, _: { k: "v" }, x: { k: "v" }, k: { k: "v" } }
NestedArgs ==
  {[key \in {<<"t", "o", "p", "i", "c">>, <<"_">>, <<"x">>, <<"k">>} |->
      ObjectValue(<<"k">> :> StringValue(<<"v">>))]}

\* the application subscribes to patterns with params and wildcards and
\* publishes, one call after another, with args that hold nested mappings
NextNestedArgs ==
  \/ \E topic \in Patterns \cup ArgPatterns : Sub(topic, PlainHandler, FALSE)
  \/ \E topic \in Topics, args \in NestedArgs \cup UserArgs :
       PubCallAwaited(topic, args)
  \/ PubSnapshot
  \/ Dispatch

SpecNestedArgs == Init /\ [][NextNestedArgs]_vars

(***************************************************************************)
(* Properties                                                              *)
(***************************************************************************)

PubIds == 1..Len(pubs)
SubIds == 1..Len(subs)

\* how many times publication p has called the handler of subscription s
Count(p, s) ==
  Cardinality({i \in 1..Len(pubs[p].invoked) : pubs[p].invoked[i].sub = s})

\* all calls of the handler of subscription s
Calls(s) ==
  {<<p, i>> \in PubIds \X (1..MaxSubs) :
     i <= Len(pubs[p].invoked) /\ pubs[p].invoked[i].sub = s}

\* the subscriptions publication p selected
Selected(p) == {pubs[p].matches[k].subscription : k \in 1..Len(pubs[p].matches)}

\* publication p has taken its snapshot and none of its map callbacks is
\* still waiting for its tick
DispatchDone(p) ==
  /\ pubs[p].pc # "tick"
  /\ ~\E i \in 1..Len(immediates) :
        immediates[i].pub = p /\ immediates[i].kind = "match"

\* a handler called by publication p has not settled yet
HandlerRunning(p) ==
  \E i \in 1..Len(immediates) :
    immediates[i].pub = p /\ immediates[i].kind = "handler"

\* does the pattern of subscription s match the topic of publication p
Matches(s, p) == MatcherMatch[subs[s].topic, pubs[p].topic].matched

\* subscriptions whose handler publication p called and that failed
Failed(p) ==
  {s \in SubIds : Count(p, s) > 0 /\ subs[s].handler.result \in {"reject", "throw"}}

\* C1: a once subscription has its handler called at most once, whatever
\* the interleaving of the publish calls and also when the handler fails
C1_OnceInvokedAtMostOnce ==
  \A s \in SubIds : subs[s].once => Cardinality(Calls(s)) <= 1

\* C2: a publish call that has completed has no handler still running
C2_CompletesAfterHandlersSettle ==
  \A p \in PubIds : pubs[p].pc = "resolved" => ~HandlerRunning(p)

\* C3: publish never fails with a handler's error, and the error of every
\* handler that failed has been handed to the error sink
C3_PublishNeverFails ==
  \A p \in PubIds :
    /\ pubs[p].pc # "rejected"
    /\ HandlerRunning(p) \/ Failed(p) \subseteq pubs[p].logged

\* C4: inFlight is the number of publish calls that have been called and
\* have not finished
C4_InFlightCountsRunningCalls ==
  inflightCount = Cardinality({p \in PubIds : pubs[p].pc \in {"tick", "dispatch"}})

\* C5: publish increments inFlight before its first suspension point: every
\* step in which publish is called leaves inFlight one higher, so k calls in
\* a row leave it k higher
C5_IncrementedBeforeFirstYield ==
  [][Len(pubs') = Len(pubs) + 1 => inflightCount' = inflightCount + 1]_vars

\* C5 witness: two publish calls in a row, none resumed yet, and inFlight 2
C5_Witness ==
  /\ Len(pubs) = 2
  /\ \A p \in PubIds : pubs[p].pc = "tick"
  /\ inflightCount = 2

\* C6: a subscription registered after publish was called (and had yielded
\* to its caller) is not called by that publish call
C6_LateSubscriberNotInvoked ==
  \A p \in PubIds : \A s \in SubIds :
    s > pubs[p].createdAtCall => Count(p, s) = 0

\* C7: a subscription that a handler registers while a publication runs it
\* is not called by that publication, and is called by a later publication
\* of a matching topic (as long as it has not been removed)
C7_RegisteredByHandler ==
  \A s \in SubIds : subs[s].regBy # 0 =>
    /\ Count(subs[s].regBy, s) = 0
    /\ \A p \in PubIds :
         (/\ s <= pubs[p].createdAtCall
          /\ ~subs[s].removed
          /\ Matches(s, p)
          /\ DispatchDone(p)) => Count(p, s) = 1

\* C7 witness: a handler of publication 1 registered a subscription, the
\* publication finished without calling it and the next one called it
C7_Witness ==
  \E s \in SubIds :
    /\ subs[s].regBy = 1
    /\ Len(pubs) = 2
    /\ DispatchDone(1)
    /\ Count(1, s) = 0
    /\ s <= pubs[2].createdAtCall
    /\ Count(2, s) = 1

\* some handler run by publication p unsubscribed something
UnsubscribedDuring(p) == \E s \in SubIds : subs[s].removedBy = p

\* C8: an unsubscribe issued by a handler during a publication does not
\* keep the handlers the publication had selected from being called, and a
\* subscription removed by unsubscribe is not called by any publish call
\* issued afterwards
C8_UnsubscribeDuringPublication ==
  /\ \A p \in PubIds :
       (DispatchDone(p) /\ UnsubscribedDuring(p)) =>
          \A s \in Selected(p) : Count(p, s) = 1
  /\ \A p \in PubIds : \A s \in pubs[p].goneAtCall : Count(p, s) = 0

\* C8 witness: a handler of publication 1 unsubscribed a subscription that
\* publication 1 had selected and then called all the same, and publication
\* 2, issued afterwards with a topic that the subscription matches, has
\* dispatched without calling it
C8_Witness ==
  \E s \in SubIds :
    /\ Len(pubs) = 2
    /\ subs[s].removedBy = 1
    /\ \E i \in 1..Len(pubs[1].invoked) :
         pubs[1].invoked[i].sub = s /\ ~pubs[1].invoked[i].registered
    /\ s \in pubs[2].goneAtCall
    /\ Matches(s, 2)
    /\ DispatchDone(2)

\* C9: a publish call calls exactly once the handler of every non-once
\* subscription that was registered when it was called, matches its topic
\* and has not been unsubscribed, and never calls the handler of a
\* subscription that does not match its topic
C9_DeliversToMatchingSubscribers ==
  \A p \in PubIds : \A s \in SubIds :
    /\ (/\ DispatchDone(p)
        /\ s <= pubs[p].createdAtCall
        /\ ~subs[s].once
        /\ ~subs[s].removed
        /\ Matches(s, p)) => Count(p, s) = 1
    /\ ~Matches(s, p) => Count(p, s) = 0

\* C9 witness: one publication called a registered non-once subscription
\* once, and another has dispatched past a registered subscription that its
\* topic does not match
C9_Witness ==
  \E p, q \in PubIds : \E s \in SubIds :
    /\ DispatchDone(p) /\ DispatchDone(q)
    /\ s <= pubs[p].createdAtCall /\ s <= pubs[q].createdAtCall
    /\ ~subs[s].once /\ ~subs[s].removed
    /\ Matches(s, p) /\ Count(p, s) = 1
    /\ ~Matches(s, q) /\ s \notin pubs[q].goneAtCall

\* the map callback of the k-th match of publication p waits for its tick
CallbackScheduled(p, k) ==
  \E i \in 1..Len(immediates) :
    /\ immediates[i].kind = "match"
    /\ immediates[i].pub = p
    /\ immediates[i].idx = k

\* C10: when the handler of one selected subscription fails, the handler of
\* every other selected subscription is still called: it has been called or
\* its callback is still scheduled, and it has been called once when the
\* dispatch is over
C10_FailureIsolation ==
  \A p \in PubIds : Failed(p) # {} =>
    \A k \in 1..Len(pubs[p].matches) :
      LET s == pubs[p].matches[k].subscription IN
      /\ Count(p, s) = 1 \/ (Count(p, s) = 0 /\ CallbackScheduled(p, k))
      /\ DispatchDone(p) => Count(p, s) = 1

\* C10 witness: the first selected handler raised, the second one was
\* called after it, went through its tick and has settled
C10_Witness ==
  \E p \in PubIds :
    /\ Len(pubs[p].invoked) = 2
    /\ subs[pubs[p].invoked[1].sub].handler.result = "throw"
    /\ subs[pubs[p].invoked[2].sub].handler.result = "ok"
    /\ subs[pubs[p].invoked[2].sub].handler.ticks = 1
    /\ ~HandlerRunning(p)

\* publication p has finished: it resolved, or rejected into its caller
Finished(p) == pubs[p].pc \in {"resolved", "rejected"}

\* C11: with publish calls issued strictly one after another, a once
\* subscription is called once in all, and as soon as a publish call that
\* was issued after its registration with a matching topic has finished,
\* it has been called and is no longer in the registry
C11_OnceRemovedAfterFirstPublish ==
  \A s \in SubIds : subs[s].once =>
    /\ Cardinality(Calls(s)) <= 1
    /\ \A p \in PubIds :
         (s <= pubs[p].createdAtCall /\ Matches(s, p) /\ Finished(p)) =>
            /\ Cardinality(Calls(s)) = 1
            /\ s \notin SeqToSet(subscriptions)

\* the token of the subscription that once(topic) created is completed
TokenCompleted(s) == Calls(s) # {}

\* C12: a publication that has finished calls no handler afterwards, so it
\* completes no token taken later; a token is completed only by a
\* publication whose topic matches it; and every token that is waiting when
\* a publish call with a matching topic is issued is completed when that
\* call has dispatched
C12_TokenCompletedByNextMatch ==
  /\ [][\A p \in PubIds : Finished(p) => pubs'[p].invoked = pubs[p].invoked]_vars
  /\ [](\A s \in SubIds :
          /\ \A p \in PubIds : Count(p, s) > 0 => Matches(s, p)
          /\ \A p \in PubIds :
               (s <= pubs[p].createdAtCall /\ Matches(s, p) /\ DispatchDone(p))
                  => TokenCompleted(s))

\* C12 witness: a publication with a matching topic finished before two
\* tokens were taken and completed neither, and the next publication
\* completed both
C12_Witness ==
  /\ Len(subs) = 2 /\ Len(pubs) = 2
  /\ pubs[1].createdAtCall = 0 /\ Finished(1) /\ pubs[1].invoked = <<>>
  /\ Matches(1, 1) /\ Matches(2, 1)
  /\ pubs[2].createdAtCall = 2
  /\ Count(2, 1) = 1 /\ Count(2, 2) = 1

\* the records created with the pattern and the handler of subscription s
Twins(s) ==
  {r \in SubIds : subs[r].topic = subs[s].topic /\ subs[r].handler = subs[s].handler}

\* how many times publication p has called the handler of the records in S
CountAll(p, S) ==
  Cardinality({i \in 1..Len(pubs[p].invoked) : pubs[p].invoked[i].sub \in S})

\* C13: n registrations of one handler with one pattern are n records: a
\* matching publication that finds them all registered calls the handler n
\* times, and unsubscribing the handle of one registered record leaves the
\* other records in the registry
C13_DuplicatesAreIndependent ==
  /\ \A p \in PubIds : \A s \in SubIds :
       (/\ DispatchDone(p)
        /\ Matches(s, p)
        /\ \A r \in Twins(s) : r <= pubs[p].createdAtCall /\ ~subs[r].removed)
          => CountAll(p, Twins(s)) = Cardinality(Twins(s))
  /\ \A s \in SeqToSet(subscriptions) :
       Twins(s) \cap SeqToSet(UnsubSubscription(subscriptions, s))
         = (Twins(s) \cap SeqToSet(subscriptions)) \ {s}

\* C13 witness: two records of one handler and one pattern, a publication
\* called the handler twice, then the application unsubscribed the handle
\* of the first record and the second is still registered
C13_Witness ==
  /\ Len(subs) = 2 /\ Twins(1) = {1, 2}
  /\ \E p \in PubIds : DispatchDone(p) /\ CountAll(p, {1, 2}) = 2
  /\ subs[1].removed /\ subs[1].removedBy = -2
  /\ SeqToSet(subscriptions) = {2}

\* C14: unsub(string) deletes exactly the registered subscriptions whose
\* matcher matches the string taken as a topic and keeps the others, in
\* their order; when none matches, the registry is left as it is
C14_UnsubscribeByString ==
  \A t \in UnsubStrings :
    /\ UnsubString(subscriptions, t)
         = SelectSeq(subscriptions, LAMBDA s : ~MatcherMatch[subs[s].topic, t].matched)
    /\ (\A s \in SeqToSet(subscriptions) : ~MatcherMatch[subs[s].topic, t].matched)
         => UnsubString(subscriptions, t) = subscriptions

\* C14 witness: the application unsubscribed a string that the first
\* subscription matches and the second does not: the first has left the
\* registry and the second is still in it
C14_Witness ==
  /\ Len(subs) = 2
  /\ subs[1].removed /\ subs[1].removedBy = 0
  /\ ~subs[2].removed /\ subscriptions = <<2>>
  /\ subs[1].topic \in Patterns /\ subs[2].topic \in StaticPatterns

\* C15: unsub(handle) takes that one record out of the registry and leaves
\* every other record where it is; a second call, or a call with a handle
\* that is not registered, leaves the registry as it is
C15_UnsubscribeByHandle ==
  \A id \in SubIds :
    /\ UnsubSubscription(subscriptions, id)
         = SelectSeq(subscriptions, LAMBDA r : r # id)
    /\ UnsubSubscription(UnsubSubscription(subscriptions, id), id)
         = UnsubSubscription(subscriptions, id)
    /\ id \notin SeqToSet(subscriptions)
         => UnsubSubscription(subscriptions, id) = subscriptions

\* C15 witness: of two subscriptions to different patterns the application
\* unsubscribed the handle of the second, which is no longer registered,
\* and the first is still in the registry
C15_Witness ==
  /\ Len(subs) = 2
  /\ subs[1].topic # subs[2].topic
  /\ subs[2].removed /\ subs[2].removedBy = -2
  /\ subscriptions = <<1>>

\* the reserved keys of the args
TopicKey == <<"t", "o", "p", "i", "c">>
WildcardKey == <<"_">>

\* C16: the args a handler is called with hold `topic`, the published
\* topic, and `_`, the wildcard captures, whatever the caller and the
\* pattern say; under any other key they hold the captured param of that
\* name if there is one, and else the value the caller gave
C16_ArgsPrecedence ==
  \A p \in PubIds : \A i \in 1..Len(pubs[p].invoked) :
    LET call == pubs[p].invoked[i]
        mr == MatcherMatch[subs[call.sub].topic, pubs[p].topic]
        user == pubs[p].args
    IN  /\ DOMAIN call.args
             = DOMAIN user \cup DOMAIN mr.params \cup {TopicKey, WildcardKey}
        /\ call.args[TopicKey] = StringValue(pubs[p].topic)
        /\ call.args[WildcardKey] = ListValue(mr.wildcard)
        /\ \A k \in DOMAIN mr.params \ {TopicKey, WildcardKey} :
             call.args[k] = mr.params[k]
        /\ \A k \in DOMAIN user \ (DOMAIN mr.params \cup {TopicKey, WildcardKey}) :
             call.args[k] = user[k]

\* C16 witness: one publication of `/A` with args that use every key called
\* a subscription to `/:x[a]`, whose param replaced the x of the caller
\* while k kept its value, and a subscription to `/:topic`, whose args hold
\* the published topic under `topic`
C16_Witness ==
  \E p \in PubIds : \E i, j \in 1..Len(pubs[p].invoked) :
    /\ pubs[p].args \in ClashingArgs
    /\ subs[pubs[p].invoked[i].sub].topic \in Patterns
    /\ pubs[p].invoked[i].args[<<"x">>] = StringValue(<<"a">>)
    /\ pubs[p].invoked[i].args[<<"k">>] = StringValue(<<"v">>)
    /\ subs[pubs[p].invoked[j].sub].topic = <<"/", ":", "t", "o", "p", "i", "c">>
    /\ pubs[p].invoked[j].args[TopicKey] = StringValue(<<"/", "A">>)

\* C17: the `topic` of the args a handler is called with is the normalized
\* form of the published topic, as the params and wildcards delivered with
\* it are
C17_TopicIsNormalized ==
  \A p \in PubIds : \A i \in 1..Len(pubs[p].invoked) :
    pubs[p].invoked[i].args[TopicKey] = StringValue(NormalizePath(pubs[p].topic))

\* match has returned for the pattern and the path that were chosen
Matched == matching.pc = "matched"

\* C18: whatever the pattern and the path, matching or not, the path of the
\* result is the normalization of the candidate path
C18_PathIsNormalized ==
  Matched => matching.result.path = NormalizePath(matching.uri)

\* C18 witness: a path with an untrimmed upper-case fragment and a doubled
\* slash did not match and the result carries its normalization
C18_Witness ==
  /\ Matched
  /\ matching.uri = <<"/", " ", "B", "/", "/", "a">>
  /\ ~matching.result.matched
  /\ matching.result.path = <<"/", "b", "/", "a">>

\* C19: a result with matched = false has no params and no wildcards
C19_FailureCarriesNothing ==
  (Matched /\ ~matching.result.matched) =>
     /\ matching.result.params = EmptyMap
     /\ matching.result.wildcard = <<>>

\* C19 witness: `/:x/a` against `/a/ B`: the param took `a`, the static
\* segment then failed, and the result is empty
C19_Witness ==
  /\ Matched
  /\ matching.pattern = <<"/", ":", "x", "/", "a">>
  /\ matching.uri = <<"/", "a", "/", " ", "B">>
  /\ ~matching.result.matched
  /\ matching.result.params = EmptyMap

\* the param descriptors of the compiled pattern that are named k
ParamsNamed(k) ==
  {i \in 1..Len(matching.matcher.matchers) :
     /\ matching.matcher.matchers[i].segmentType = "param"
     /\ matching.matcher.matchers[i].name = k}

\* C20: on a successful match every key of params names exactly one param
\* descriptor of the pattern, and its value is a list of strings when the
\* descriptor is multi-list and one string otherwise
C20_ParamsFollowDescriptors ==
  (Matched /\ matching.result.matched) =>
     \A k \in DOMAIN matching.result.params :
       /\ Cardinality(ParamsNamed(k)) = 1
       /\ \A i \in ParamsNamed(k) :
            /\ matching.result.params[k].isList
                 = (GetType(matching.matcher.matchers[i]) = "multi")
            /\ ~matching.result.params[k].isList
                 => Len(matching.result.params[k].v) = 1

\* C20 witness: `/:x/:y**` against `/a/ B/a` gives the string x = `a` and
\* the list y = [`b`, `a`]
C20_Witness ==
  /\ Matched /\ matching.result.matched
  /\ matching.pattern = <<"/", ":", "x", "/", ":", "y", "*", "*">>
  /\ matching.result.params[<<"x">>] = StringValue(<<"a">>)
  /\ matching.result.params[<<"y">>] = ListValue(<<<<"b">>, <<"a">>>>)

\* the segments of a candidate path: the fragments of its normalization, of
\* which the path `/` has none
CandidateSegments(uri) == FilterNonEmpty(GetSegments(uri))

\* a segment made only of characters listed in a class such as `[a]`
InClass(seg, range) ==
  /\ seg # <<>>
  /\ \A j \in 1..Len(seg) : seg[j] \in {range[k] : k \in 2..(Len(range) - 1)}

\* a param or wildcard descriptor whose arity is single
SingleArity(m) ==
  m.segmentType \in {"param", "wildcard"} /\ GetType(m) = "single"

\* the compiled descriptors of the pattern that was matched
Descriptors == matching.matcher.matchers

\* C21: a pattern of single-arity params and wildcards matches only the
\* candidates that have one segment for each descriptor, each made of class
\* characters where a class is set; in particular it does not match `/`
C21_SingleConsumesOneSegment ==
  (/\ Matched /\ matching.result.matched
   /\ \A i \in 1..Len(Descriptors) : SingleArity(Descriptors[i]))
  => /\ Len(CandidateSegments(matching.uri)) = Len(Descriptors)
     /\ \A i \in 1..Len(Descriptors) :
          Descriptors[i].range # <<>> =>
            InClass(CandidateSegments(matching.uri)[i], Descriptors[i].range)

\* C21 without the path `/`: the candidates that have a segment
C21_SingleOnCandidatesWithSegments ==
  NormalizePath(matching.uri) # <<"/">> => C21_SingleConsumesOneSegment

\* SegmentMatcher.match has returned for the segment and the list chosen
SegmentMatched == matching.pc = "segmentMatched"

\* the descriptor is a param or a wildcard and getType reports the arity
HasArity(m, arities) ==
  m.segmentType \in {"param", "wildcard"} /\ GetType(m) \in arities

\* every segment of the list satisfies the class of the descriptor, if set
AllInClass(m, segments) ==
  m.range # <<>> => \A i \in 1..Len(segments) : InClass(segments[i], m.range)

\* what the result emits: the param value when the descriptor is a param,
\* the wildcard list when it is a wildcard.  asList: a list of segments,
\* else one string
Emits(m, r, value, asList) ==
  IF m.segmentType = "param"
  THEN /\ r.paramName = m.name /\ r.hasValue /\ ~r.hasWildcard
       /\ r.valueIsList = asList
       /\ r.paramValue = value
  ELSE /\ ~r.hasValue /\ r.hasWildcard
       /\ r.wildcard = value

\* the result captures nothing
EmitsNothing(r) == ~r.hasValue /\ ~r.hasWildcard

\* what C22 says of a multi-list or multi-string descriptor
MultiConsumesAll ==
  LET m == matching.matcher
      r == matching.result
      segments == matching.uri
  IN  /\ r.ok <=> (Len(segments) >= 1 /\ AllInClass(m, segments))
      /\ r.ok => /\ r.leftover = <<>>
                 /\ IF GetType(m) = "multi"
                    THEN Emits(m, r, segments, TRUE)
                    ELSE Emits(m, r, <<Join(segments)>>, FALSE)

\* C22: a multi-list or multi-string descriptor matches exactly when a
\* segment remains and all remaining segments satisfy its class; it leaves
\* nothing over and emits the segments as a list, or joined by `/`
C22_MultiConsumesAll ==
  (SegmentMatched /\ HasArity(matching.matcher, {"multi", "multi-string"}))
  => MultiConsumesAll

\* C22 for the descriptors that are not written as modifier plus class
C22_MultiOfPlainForms ==
  matching.form.kind # "leadBracket" => C22_MultiConsumesAll

\* what C23 says of an optional descriptor
OptionalAlwaysSucceeds ==
  LET m == matching.matcher
      r == matching.result
      segments == matching.uri
  IN  /\ r.ok
      /\ IF Len(segments) = 0
         THEN r.leftover = <<>> /\ EmitsNothing(r)
         ELSE IF m.range # <<>> /\ ~InClass(Head(segments), m.range)
         THEN r.leftover = segments /\ EmitsNothing(r)
         ELSE /\ r.leftover = Tail(segments)
              /\ Emits(m, r, <<Head(segments)>>, FALSE)

\* C23: an optional descriptor always succeeds; it captures nothing when no
\* segment is left, captures and consumes nothing when the first segment
\* fails its class, and otherwise consumes and captures one segment
C23_OptionalAlwaysSucceeds ==
  (SegmentMatched /\ HasArity(matching.matcher, {"optional"}))
  => OptionalAlwaysSucceeds

\* C23 for the descriptors that are not written as modifier plus class
C23_OptionalOfPlainForms ==
  matching.form.kind # "leadBracket" => C23_OptionalAlwaysSucceeds

RECURSIVE SegmentsIn(_)
\* how many path segments a list of captured strings stands for: a string
\* joined from several segments counts for each of them
SegmentsIn(strings) ==
  IF strings = <<>> THEN 0
  ELSE Len(Split(Head(strings))) + SegmentsIn(Tail(strings))

RECURSIVE SumOver(_, _)
SumOver(f, S) ==
  IF S = {} THEN 0
  ELSE LET k == CHOOSE k \in S : TRUE IN f[k] + SumOver(f, S \ {k})

\* the segments the params and the wildcards of the result hold together
CapturedSegments(result) ==
  SegmentsIn(result.wildcard)
  + SumOver([k \in DOMAIN result.params |-> SegmentsIn(result.params[k].v)],
            DOMAIN result.params)

StaticDescriptors == {i \in 1..Len(Descriptors) : Descriptors[i].segmentType = "static"}

\* C24: in a successful match the descriptors have consumed every segment
\* of the candidate, each one being the text of a static descriptor or part
\* of a capture; and a pattern of static segments matches exactly the
\* candidates whose normalization is that of the pattern
C24_EverySegmentConsumed ==
  Matched =>
    /\ (matching.result.matched /\ ~matching.matcher.isRoot) =>
         Len(GetSegments(matching.uri))
           = Cardinality(StaticDescriptors) + CapturedSegments(matching.result)
    /\ Cardinality(StaticDescriptors) = Len(Descriptors) =>
         (matching.result.matched
            <=> NormalizePath(matching.uri) = NormalizePath(matching.pattern))

\* C24 witness: `/*` against `/a/ B`: the wildcard takes `a`, `b` is left
\* over and the match fails
C24_Witness ==
  /\ Matched
  /\ matching.pattern = <<"/", "*">>
  /\ matching.uri = <<"/", "a", "/", " ", "B">>
  /\ ~matching.result.matched

\* a descriptor other than an optional one comes somewhere after a
\* multi-list or multi-string descriptor of the pattern
NonOptionalAfterGreedy ==
  \E i, j \in 1..Len(Descriptors) :
    /\ i < j
    /\ HasArity(Descriptors[i], {"multi", "multi-string"})
    /\ GetType(Descriptors[j]) # "optional"

\* C25: a pattern in which a descriptor that is not optional follows a
\* multi-list or multi-string descriptor matches no candidate
C25_NothingAfterGreedy ==
  (Matched /\ NonOptionalAfterGreedy) => ~matching.result.matched

\* the pattern has a wildcard written as modifier plus class
HasLeadBracket ==
  \E i \in 1..Len(Descriptors) :
    /\ Descriptors[i].segmentType = "wildcard"
    /\ Descriptors[i].range # <<>>
    /\ Descriptors[i].raw[1] # "["

\* C25 for the patterns without a wildcard written as modifier plus class
C25_NothingAfterPlainGreedy ==
  (Matched /\ ~HasLeadBracket) => C25_NothingAfterGreedy

\* the constructor has returned or thrown for the pattern that was chosen
Constructed == matching.pc \in {"built", "threw", "matched"}

\* the matcher of the pattern in normalized form gives this result, or
\* throws as well
SameAsNormalizedPattern(nm) ==
  /\ matching.matcher.err = nm.err
  /\ Matched => matching.result = Match(nm, matching.uri)

\* C26: a candidate gets the result its normalization gets, so candidates
\* with one normalization get one result; and a pattern written with upper
\* case or with further slashes behaves as its normalized form does
C26_OnlyNormalizedFormsCount ==
  /\ Matched =>
       matching.result = Match(matching.matcher, NormalizePath(matching.uri))
  /\ Constructed =>
       SameAsNormalizedPattern(BasePathMatcher(NormalizePath(matching.pattern)))

\* C26 for the patterns that are `/` or have a segment
C26_PatternsWithSegments ==
  (matching.pattern = <<"/">> \/ NormalizePath(matching.pattern) # <<"/">>)
  => C26_OnlyNormalizedFormsCount

\* C27: the root pattern `/` matches exactly the candidates that normalize
\* to `/`, with no params and no wildcards; a candidate with a segment is
\* not matched
C27_RootMatchesRootOnly ==
  (Matched /\ matching.pattern = <<"/">>) =>
     /\ matching.result.matched <=> NormalizePath(matching.uri) = <<"/">>
     /\ CandidateSegments(matching.uri) # <<>> => ~matching.result.matched
     /\ matching.result.params = EmptyMap
     /\ matching.result.wildcard = <<>>

\* C27 witness: the root pattern has matched the candidate `//`
C27_Witness ==
  /\ Matched
  /\ matching.pattern = <<"/">>
  /\ matching.uri = <<"/", "/">>
  /\ matching.result.matched

\* C28: sub with a pattern in which two params share a name throws, of
\* whatever arity and at whatever position they are, and leaves the registry
\* as it was; no subscription with such a pattern is ever registered
C28_DuplicateNamesRejected ==
  /\ (matching.pc \in {"subThrew", "subReturned"}
        /\ matching.pattern \in DuplicatePatterns)
     => /\ matching.pc = "subThrew"
        /\ matching.after = matching.before
  /\ \A id \in 1..Len(subs) : subs[id].topic \notin DuplicatePatterns

\* C28 witness: sub(`/:x/b/:x+`) has thrown while one subscription was
\* registered, and the registry still holds that subscription only
C28_Witness ==
  /\ matching.pc = "subThrew"
  /\ matching.pattern = <<"/", ":", "x", "/", "b", "/", ":", "x", "+">>
  /\ matching.before = <<1>>
  /\ subscriptions = <<1>>

\* the PathSegment constructor has returned or thrown for the form chosen
Parsed == matching.pc \in {"parsed", "threw", "segmentMatched"}

\* the arity a suffix or a symbol stands for, as getType names it
ArityOf(modifier) ==
  CASE modifier = <<"*", "*">> -> "multi"
    [] modifier = <<"+">> -> "multi-string"
    [] modifier = <<"?">> -> "optional"
    [] modifier \in {<<"*">>, <<>>} -> "single"

\* the arity flags that are set in a descriptor
FlagsSet(d) ==
  {f \in {"optional", "single", "multi", "multiString"} :
     \/ f = "optional" /\ d.optional
     \/ f = "single" /\ d.single
     \/ f = "multi" /\ d.multi
     \/ f = "multiString" /\ d.multiString}

\* C29: a named param, a standalone wildcard and a bracket-first wildcard
\* parse to a descriptor whose arity is the one of the suffix or symbol,
\* whose class is the bracket and whose name is the text between `:` and
\* the bracket or suffix
C29_SuffixGivesArity ==
  (Parsed /\ matching.form.kind \in {"param", "standalone", "bracketFirst"})
  => /\ ~matching.matcher.err
     /\ matching.matcher.segmentType
          = (IF matching.form.kind = "param" THEN "param" ELSE "wildcard")
     /\ GetType(matching.matcher)
          = ArityOf(matching.form.lead \o matching.form.suffix)
     /\ Cardinality(FlagsSet(matching.matcher)) = 1
     /\ matching.matcher.range = matching.form.class
     /\ matching.matcher.name = matching.form.name

\* C29 witness: `:x[a]**` has parsed to the multi-list param x of class
\* `[a]`
C29_Witness ==
  /\ matching.pc = "parsed"
  /\ Written(matching.form) = <<":", "x", "[", "a", "]", "*", "*">>
  /\ GetType(matching.matcher) = "multi"
  /\ matching.matcher.name = <<"x">>
  /\ matching.matcher.range = <<"[", "a", "]">>

\* the result of a descriptor that is treated with the given arity
BehavesAs(arity) ==
  LET m == matching.matcher
      r == matching.result
      segments == matching.uri
  IN  CASE arity = "optional" -> OptionalAlwaysSucceeds
        [] arity = "single" ->
             /\ r.ok <=> (Len(segments) >= 1 /\ AllInClass(m, <<Head(segments)>>))
             /\ r.ok => /\ r.leftover = Tail(segments)
                        /\ Emits(m, r, <<Head(segments)>>, FALSE)
        [] arity \in {"multi", "multi-string"} ->
             /\ r.ok <=> (Len(segments) >= 1 /\ AllInClass(m, segments))
             /\ r.ok => /\ r.leftover = <<>>
                        /\ IF arity = "multi"
                           THEN Emits(m, r, segments, TRUE)
                           ELSE Emits(m, r, <<Join(segments)>>, FALSE)

\* the arity C30 gives a wildcard written as modifier, class and suffix
LeadBracketArity(form) ==
  ArityOf(IF form.suffix = <<>> THEN form.lead ELSE form.suffix)

\* C30: a wildcard written as modifier plus class has the arity of the
\* modifier, or of the suffix when one follows the class, and
\* SegmentMatcher treats it with that arity
C30_LeadingModifierGivesArity ==
  (Parsed /\ matching.form.kind = "leadBracket")
  => /\ ~matching.matcher.err
     /\ matching.matcher.segmentType = "wildcard"
     /\ matching.matcher.range = matching.form.class
     /\ GetType(matching.matcher) = LeadBracketArity(matching.form)
     /\ SegmentMatched => BehavesAs(LeadBracketArity(matching.form))

\* C31: the PathSegment constructor throws for a segment that is empty,
\* that is a param without a name, that has an unknown suffix after its
\* name or bracket, or whose bracket is not closed, in param form and in
\* wildcard form
C31_MalformedSegmentsThrow ==
  (Parsed /\ matching.form.kind \in MalformedKinds) => matching.pc = "threw"

\* C31 for the empty segment, the empty name, the unknown suffix after a
\* bracket and the unclosed bracket of a param
C31_MalformedThatThrow ==
  matching.form.kind \notin {"suffixAfterName", "unterminatedWildcard"}
  => C31_MalformedSegmentsThrow

Merged == matching.pc = "merged"

BaseBefore == Deref(matching.before, matching.base)
ApplyBefore == Deref(matching.before, matching.apply)
Returned == Deref(matching.heap, matching.result)

RECURSIVE DeepMergeContract(_, _)
\* the value the contract gives for two mappings: per key the recursive
\* merge when both sides hold mappings, else the value of apply when apply
\* has the key, else the value of base
DeepMergeContract(base, apply) ==
  ObjectValue(
    [k \in DOMAIN base.entries \cup DOMAIN apply.entries |->
       IF /\ k \in DOMAIN base.entries /\ k \in DOMAIN apply.entries
          /\ IsObjectValue(base.entries[k])
          /\ IsObjectValue(apply.entries[k])
       THEN DeepMergeContract(base.entries[k], apply.entries[k])
       ELSE IF k \in DOMAIN apply.entries THEN apply.entries[k]
       ELSE base.entries[k]])

\* C32: merge(base, apply) returns, for every key, the recursive merge when
\* both sides hold plain mappings, otherwise the value of apply when apply
\* has the key, otherwise the value of base; a list counts as a value and
\* is replaced as a whole.
C32_MergeFollowsContract ==
  Merged => Returned = DeepMergeContract(BaseBefore, ApplyBefore)

\* merge has met two mappings under a, which differ, and a list of apply
\* under b where base holds a list
C32_NestedMergedAndListReplaced ==
  /\ Merged
  /\ "a" \in DOMAIN BaseBefore.entries /\ "a" \in DOMAIN ApplyBefore.entries
  /\ IsObjectValue(BaseBefore.entries["a"])
  /\ IsObjectValue(ApplyBefore.entries["a"])
  /\ DOMAIN BaseBefore.entries["a"].entries = {"a"}
  /\ DOMAIN ApplyBefore.entries["a"].entries = {"b"}
  /\ DOMAIN Returned.entries["a"].entries = {"a", "b"}
  /\ "b" \in DOMAIN BaseBefore.entries /\ "b" \in DOMAIN ApplyBefore.entries
  /\ "isList" \in DOMAIN BaseBefore.entries["b"]
  /\ Returned.entries["b"] = ApplyBefore.entries["b"]

\* C33: merge does not mutate its arguments: after merge(base, apply) every
\* object that existed before the call, base, apply and the mappings nested
\* in them at every depth, holds what it held before.
C33_ArgumentsNotMutated ==
  Merged =>
    /\ Len(matching.heap) >= Len(matching.before)
    /\ \A addr \in 1..Len(matching.before) :
         matching.heap[addr] = matching.before[addr]

\* merge has merged a mapping nested in a nested mapping, and returned
\* something other than base
C33_MergedTwoLevelsDown ==
  /\ Merged
  /\ Len(matching.heap) >= Len(matching.before) + 3
  /\ Returned # BaseBefore

\* C34: merge is idempotent on equal inputs: merge(x, x), with one object
\* given twice or with two structurally equal objects, is structurally
\* equal to x.
C34_MergeIdempotent ==
  (Merged /\ BaseBefore = ApplyBefore) => Returned = BaseBefore

\* merge(x, x) was called with one object for both arguments, holding a
\* nested mapping, a list and null
C34_SameObjectTwice ==
  /\ Merged
  /\ matching.base = matching.apply
  /\ \E k \in DOMAIN BaseBefore.entries :
       /\ IsObjectValue(BaseBefore.entries[k])
       /\ \E j \in DOMAIN BaseBefore.entries[k].entries :
            "isList" \in DOMAIN BaseBefore.entries[k].entries[j]
  /\ \E k \in DOMAIN BaseBefore.entries : BaseBefore.entries[k] = NullValue

\* the publications whose snapshot has been taken
Snapshotted == {p \in 1..Len(pubs) : pubs[p].pc # "tick"}

\* C35: after a publication of topic T whose snapshot contained a
\* subscription S matching T, the memo of S holds an entry for T with the
\* params of that match; and the memo holds no topic S does not match
C35_MemoHoldsMatchedTopics ==
  /\ \A p \in Snapshotted : \A i \in 1..Len(pubs[p].matches) :
       LET S == subs[pubs[p].matches[i].subscription] IN
         /\ pubs[p].topic \in DOMAIN S.matchedTopics
         /\ S.matchedTopics[pubs[p].topic] = pubs[p].matches[i].params
  /\ \A id \in 1..Len(subs) : \A topic \in DOMAIN subs[id].matchedTopics :
       MatcherMatch[subs[id].topic, topic].matched

\* the memo of every subscription stays as sub created it: empty
C35_MemoNeverWritten ==
  \A id \in 1..Len(subs) : subs[id].matchedTopics = EmptyMap

\* the mapping { _: wildcards, topic } of a match of a published topic
ReservedArgs(wildcard, topic) ==
  (WildcardKey :> ListValue(wildcard)) @@ (TopicKey :> StringValue(topic))

\* C36: the args a handler is called with equal the deep merge, by the
\* contract of merge, of the args of the caller, then the captured params,
\* then { _: wildcards, topic }, also when the caller's args hold nested
\* mappings under the name of a param, under `_` and under `topic`
C36_ArgsAreDeepMerge ==
  \A p \in PubIds : \A i \in 1..Len(pubs[p].invoked) :
    LET call == pubs[p].invoked[i]
        mr == MatcherMatch[subs[call.sub].topic, pubs[p].topic]
    IN  ObjectValue(call.args)
          = DeepMergeContract(
              DeepMergeContract(ObjectValue(pubs[p].args), ObjectValue(mr.params)),
              ObjectValue(ReservedArgs(mr.wildcard, pubs[p].topic)))

\* a publication of `/A` with nested mappings under every key called a
\* subscription to `/:x[a]`: the capture replaced the mapping under x, the
\* mapping under k was kept
C36_NestedMappingsCollide ==
  \E p \in PubIds : \E i \in 1..Len(pubs[p].invoked) :
    /\ pubs[p].args \in NestedArgs
    /\ subs[pubs[p].invoked[i].sub].topic \in Patterns
    /\ pubs[p].invoked[i].args[<<"x">>] = StringValue(<<"a">>)
    /\ IsObjectValue(pubs[p].invoked[i].args[<<"k">>])
    /\ ~IsObjectValue(pubs[p].invoked[i].args[TopicKey])

\* the constructor returned a descriptor of a param or of a wildcard
ParsedCapture ==
  /\ Parsed
  /\ ~matching.matcher.err
  /\ matching.matcher.segmentType \in {"param", "wildcard"}

\* C37: every descriptor the parser produces for a param or a wildcard has
\* exactly one of the four arity flags set, for every accepted form
C37_ExactlyOneArityFlag ==
  ParsedCapture => Cardinality(FlagsSet(matching.matcher)) = 1

\* C37 for the forms other than modifier plus class
C37_ExactlyOneFlagWithoutLeadModifier ==
  matching.form.kind # "leadBracket" => C37_ExactlyOneArityFlag

\* C39: for every param or wildcard descriptor the parser accepts, the
\* arity getType reports is the arity SegmentMatcher applies when it
\* matches, and the flag the pattern matcher reads to skip a descriptor
\* when no segment is left is set exactly when that arity is optional
C39_ReportedArityIsApplied ==
  (ParsedCapture /\ SegmentMatched)
  => /\ BehavesAs(GetType(matching.matcher))
     /\ matching.matcher.optional <=> GetType(matching.matcher) = "optional"

\* C39 for the forms other than modifier plus class
C39_AppliedWithoutLeadModifier ==
  matching.form.kind # "leadBracket" => C39_ReportedArityIsApplied

\* the segment is made of digits
IsDigits(seg) ==
  /\ seg # <<>>
  /\ \A j \in 1..Len(seg) :
       seg[j] \in {"0", "1", "2", "3", "4", "5", "6", "7", "8", "9"}

\* the last segment of a pattern accepts the segment: `b` is itself, `:y`
\* takes any
LastTakes(last, seg) == last = <<"b">> => seg = <<"b">>

\* what matching without backtracking gives for `/a/<opt>/<last>`: an
\* optional descriptor without class takes the second segment whenever
\* there is one; one with class `[0-9]` takes it when it is made of digits
\* and leaves it to the last segment otherwise
GreedyMatch(opt, last, segs) ==
  /\ Len(segs) >= 2
  /\ segs[1] = <<"a">>
  /\ IF "[" \in SeqToSet(opt) /\ ~IsDigits(segs[2])
     THEN Len(segs) = 2 /\ LastTakes(last, segs[2])
     ELSE Len(segs) = 3 /\ LastTakes(last, segs[3])

\* C38: matching never backtracks: in `/a/<opt>/<last>` an optional
\* descriptor without class consumes the second segment whenever there is
\* one, also when skipping it would let the pattern match, and one with a
\* class consumes it exactly when the class accepts it; `/a/:x?/b` does not
\* match `/a/b` while `/a/:x[0-9]?/b` does
C38_NoBacktracking ==
  Matched =>
    /\ \A opt \in OptionalSegments, last \in LastSegments :
         matching.pattern = OptionalPattern(opt, last)
         => (matching.result.matched
             <=> GreedyMatch(opt, last, CandidateSegments(matching.uri)))
    /\ (/\ matching.pattern = <<"/", "a", "/", ":", "x", "?", "/", "b">>
        /\ matching.uri = <<"/", "a", "/", "b">>) => ~matching.result.matched
    /\ (/\ matching.pattern
             = <<"/", "a", "/", ":", "x", "[", "0", "-", "9", "]", "?", "/", "b">>
        /\ matching.uri = <<"/", "a", "/", "b">>) => matching.result.matched

\* `/a/:x?/b` has been matched against `/a/b` and has not matched
C38_OptionalTookTheLastSegment ==
  /\ Matched
  /\ matching.pattern = <<"/", "a", "/", ":", "x", "?", "/", "b">>
  /\ matching.uri = <<"/", "a", "/", "b">>
  /\ ~matching.result.matched

\* the segments lo+1 .. hi of a candidate
Taken(segs, lo, hi) == [j \in 1..(hi - lo) |-> segs[lo + j]]

\* the segments a captured param value is made of: the elements of a list,
\* the pieces of a string between its slashes
ValueSegments(value) == IF value.isList THEN value.v ELSE Split(value.v[1])

RECURSIVE WildcardSegments(_)
\* the segments the entries of a wildcard list are made of, in order
WildcardSegments(list) ==
  IF list = <<>> THEN <<>>
  ELSE Split(Head(list)) \o WildcardSegments(Tail(list))

RECURSIVE WildcardsTook(_, _, _, _)
\* the segments the wildcard descriptors from i on took, in order, when
\* descriptor k took the segments cut[k-1]+1 .. cut[k]
WildcardsTook(ds, segs, cut, i) ==
  IF i > Len(ds) THEN <<>>
  ELSE (IF ds[i].segmentType = "wildcard"
        THEN Taken(segs, cut[i - 1], cut[i]) ELSE <<>>)
       \o WildcardsTook(ds, segs, cut, i + 1)

\* the result is what descriptor d gives for the segments it took
DescriptorTook(d, taken, result) ==
  CASE d.segmentType = "static" -> taken = <<d.raw>>
    [] d.segmentType = "param" ->
         IF taken = <<>> THEN d.name \notin DOMAIN result.params
         ELSE /\ d.name \in DOMAIN result.params
              /\ ValueSegments(result.params[d.name]) = taken
    [] OTHER -> TRUE

\* the segments can be cut into consecutive runs, one per descriptor in
\* order, that account for the result
ConsumedInOrder(ds, segs, result) ==
  \E cut \in [0..Len(ds) -> 0..Len(segs)] :
    /\ cut[0] = 0
    /\ cut[Len(ds)] = Len(segs)
    /\ \A i \in 1..Len(ds) :
         /\ cut[i - 1] <= cut[i]
         /\ DescriptorTook(ds[i], Taken(segs, cut[i - 1], cut[i]), result)
    /\ WildcardSegments(result.wildcard) = WildcardsTook(ds, segs, cut, 1)

\* C40: on every successful match the segments of the candidate are
\* consumed in order, each by exactly one descriptor: a static descriptor
\* equals its segment, every captured value is made of non-empty segments
\* of the candidate, and the wildcard list is the in-order concatenation
\* of what the wildcard descriptors took
C40_ConsumedInOrder ==
  (Matched /\ matching.result.matched /\ ~matching.matcher.isRoot) =>
     /\ ConsumedInOrder(Descriptors, GetSegments(matching.uri), matching.result)
     /\ \A j \in 1..Len(GetSegments(matching.uri)) :
          GetSegments(matching.uri)[j] # <<>>

\* C40 for the candidates that do not normalize to `/`
C40_OnCandidatesWithSegments ==
  NormalizePath(matching.uri) # <<"/">> => C40_ConsumedInOrder
====
